---- MODULE Spec2Model ----
(***************************************************************************)
(* The plan manager of motionplan/planManager.go as a state machine.       *)
(*                                                                         *)
(* One request (PlanSingleWaypoint) is followed from its set-up to its     *)
(* return.  The execution units of the request are                         *)
(*   - the orchestrator: PlanSingleWaypoint -> planAtomicWaypoints ->       *)
(*     planSingleAtomicWaypoint, running in the caller's goroutine;        *)
(*   - one driver per atomic waypoint: the goroutine that runs             *)
(*     planParallelRRTMotion (instance <<i, 1>>), and, when the driver      *)
(*     starts the fallback, a second driver running the same function for  *)
(*     the fallback planner (instance <<i, 2>>);                             *)
(*   - per driver, the planner's rrtBackgroundRunner goroutine and the     *)
(*     smoothPath goroutine.                                               *)
(* Channels are sequences of capacity 1.  A configuration is an integer,   *)
(* the distance between two configurations is their absolute difference,   *)
(* a path is a sequence of configurations and the nil path is <<>>.        *)
(***************************************************************************)
EXTENDS Integers, Sequences, FiniteSets, TLC

\* ------------------------------------------------------------------ bounds
\* the largest number of atomic waypoints one request is decomposed into
MaxGoals == 2
\* configurations are 0..MaxConfig
MaxConfig == 1

\* --------------------------------------------------------------- constants
defaultOptimalityMultiple == 2
\* math.Inf(1): larger than the cost of any path of the model
Inf == 1000000

Configs == 0..MaxConfig
\* a configuration off the straight way, through which a planner may detour
Detour == MaxConfig + 1
Waypoints == 0..(MaxGoals - 1)
\* <<i, 1>>: the driver of atomic waypoint i; <<i, 2>>: the driver of its fallback
Inst == Waypoints \X {1, 2}

\* ------------------------------------------------------------------ values
NoErr == <<"nil", 0>>
CtxErr == <<"ctx", 0>>
NoMaps == [goals |-> {}, opt |-> 0]
NoPromise == [kind |-> "none", steps |-> <<>>, of |-> <<0, 0>>]
None == -1

Abs(x) == IF x < 0 THEN -x ELSE x
Last(s) == s[Len(s)]

\* rrtPlanReturn{steps, planerr, maps}
PlanReturn(steps, planerr, maps) == [steps |-> steps, planerr |-> planerr, maps |-> maps]
NoReturn == PlanReturn(<<>>, NoErr, NoMaps)

\* resultPromise{steps: steps} and resultPromise{future: solutionChan of k}
ReadyPromise(steps) == [kind |-> "ready", steps |-> steps, of |-> <<0, 0>>]
FuturePromise(k) == [kind |-> "future", steps |-> <<>>, of |-> k]

\* Path cost: the sum of the distances of adjacent configurations.
RECURSIVE EvaluatePlan(_)
EvaluatePlan(path) ==
    IF Len(path) < 2 THEN 0
    ELSE Abs(path[1] - path[2]) + EvaluatePlan(Tail(path))

goodPlanBadThreshold(pr) ==
    IF pr.steps # <<>>
    THEN IF pr.maps.opt <= 0
         THEN <<TRUE, Inf>>
         ELSE IF EvaluatePlan(pr.steps) <= pr.maps.opt * defaultOptimalityMultiple
              THEN <<TRUE, EvaluatePlan(pr.steps)>>
              ELSE <<FALSE, EvaluatePlan(pr.steps)>>
    ELSE <<FALSE, Inf>>

\* goodPlan: <<good enough, score>>.
goodPlan(pr) ==
    IF pr.steps # <<>>
    THEN IF pr.maps.opt <= 0
         THEN <<TRUE, Inf>>
         ELSE IF EvaluatePlan(pr.steps) < pr.maps.opt * defaultOptimalityMultiple
              THEN <<TRUE, EvaluatePlan(pr.steps)>>
              ELSE <<FALSE, EvaluatePlan(pr.steps)>>
    ELSE <<FALSE, Inf>>

VARIABLES
    req,        \* the request and its world: numGoals, parallel, fallback, faults, seed
    ctxDone,    \* the request's context is cancelled or timed out
    orch,       \* the orchestrator's position and locals
    ret,        \* what PlanSingleWaypoint returned
    drv,        \* per instance: the driver's position and locals
    chan,       \* per instance: endpointPreview, solutionChan, plannerChan, smoothChan
    plr,        \* per instance: the planner's background run
    smo,        \* per instance: the smoothing goroutine
    sent,       \* per instance: messages sent so far on endpointPreview and solutionChan
    outOfOrder, \* some waypoint's driver sent its solution before an earlier waypoint's
    setup,      \* PlanSingleWaypoint's decomposition: goals, options and planners
    judged,     \* a plan return handed to goodPlan, and goodPlan's verdict
    graph,      \* a collision graph: its geometry names and its distances table
    enc,        \* an incremental encoder, its worker and a Reset in progress
    stream,     \* a SLAM stream being concatenated into its full bytes
    svc         \* a reconfigurable SLAM service, its lock and the calls on it

planVars == <<req, ctxDone, orch, ret, drv, chan, plr, smo, sent, outOfOrder>>
unitVars == <<setup, judged, graph, enc, stream, svc>>
vars == <<req, ctxDone, orch, ret, drv, chan, plr, smo, sent, outOfOrder,
          setup, judged, graph, enc, stream, svc>>

\* ------------------------------------------------- the planners (black boxes)
Min(S) == CHOOSE x \in S : \A y \in S : x <= y

\* rrtMaps after IK seeding: the goal map holds the IK solutions, optNode is
\* the solution nearest to the seed and its cost the distance from the seed.
MapsFor(G, seed) == [goals |-> G, opt |-> Min({Abs(seed - g) : g \in G})]

GoalSets == (SUBSET Configs) \ {{}}

\* What IK, the planners and smoothing make of their inputs and random
\* sources in the world of a request: "any" leaves every result open that they
\* may give; the other worlds fix one result each, as planners do whose
\* random sources are fixed.
AnyWorld == [ik |-> "any", plan |-> "any", fb |-> "any", smooth |-> "any"]
Worlds ==
    [ik : {"direct", "single", "many"}, plan : {"straight", "detour"},
     fb : {"straight", "detour"}, smooth : {"keep", "shortcut"}]

Max(S) == CHOOSE x \in S : \A y \in S : x >= y

\* the configuration a fixed world's IK finds first for a goal, seen from seed
DetEnd(seed) == (seed + 1) % (MaxConfig + 1)

\* initRRTSolutions: an IK error (in a world with faults), a direct
\* interpolation <<seed, g>>, or maps.
initRRTSolutions(level, seed) ==
    (IF req.faults THEN {PlanReturn(<<>>, <<"ik", level>>, NoMaps)} ELSE {})
    \cup
    (CASE req.world.ik = "direct" ->
            {PlanReturn(<<seed, DetEnd(seed)>>, NoErr, MapsFor({DetEnd(seed)}, seed))}
       [] req.world.ik = "single" -> {PlanReturn(<<>>, NoErr, MapsFor({DetEnd(seed)}, seed))}
       [] req.world.ik = "many" -> {PlanReturn(<<>>, NoErr, MapsFor(Configs, seed))}
       [] OTHER ->
            {PlanReturn(<<seed, g>>, NoErr, MapsFor({g}, seed)) : g \in Configs}
            \cup {PlanReturn(<<>>, NoErr, MapsFor(G, seed)) : G \in GoalSets})

\* the paths from seed to e: the straight one and the one through Detour
PathsTo(seed, e) == {<<seed, e>>, <<seed, Detour, e>>}

\* the one path a planner with a fixed random source finds
PathOfShape(shape, seed, e) == IF shape = "straight" THEN <<seed, e>> ELSE <<seed, Detour, e>>

\* the node of the goal map a planner commits to when it posts a preview
PreviewOutcomes(maps) ==
    IF req.world.plan = "any" THEN maps.goals ELSE {Max(maps.goals)}

\* What a planner posts on its completion channel: an error (a failure or its
\* own timeout, with or without the tree maps), or a path from the seed to a
\* node of the goal map, the previewed one when it has posted a preview.
PlannerOutcomes(level, seed, maps, end) ==
    (IF req.faults
     THEN {PlanReturn(<<>>, <<"plan", level>>, m) : m \in {NoMaps, maps}}
     ELSE {})
    \cup {PlanReturn(path, NoErr, maps) :
            path \in IF req.world.plan = "any"
                     THEN UNION {PathsTo(seed, e) :
                                   e \in IF end = None THEN maps.goals ELSE {end}}
                     ELSE {PathOfShape(IF level = 1 THEN req.world.plan ELSE req.world.fb,
                                       seed, IF end = None THEN Max(maps.goals) ELSE end)}}

\* smoothPath keeps the path or shortcuts it; it keeps both ends; nil stays nil.
SmoothOutcomes(steps) ==
    IF steps = <<>> THEN {<<>>}
    ELSE CASE req.world.smooth = "keep" -> {steps}
           [] req.world.smooth = "shortcut" -> {<<steps[1], Last(steps)>>}
           [] OTHER -> {steps, <<steps[1], Last(steps)>>}

\* plan() of a planner that is not parallel: a path from the seed, or an error.
SerialOutcomes(seed) ==
    (IF req.faults THEN {PlanReturn(<<>>, <<"plan", 1>>, NoMaps)} ELSE {})
    \cup {PlanReturn(path, NoErr, NoMaps) :
            path \in IF req.world.plan = "any"
                     THEN UNION {PathsTo(seed, e) : e \in Configs}
                     ELSE {PathOfShape(req.world.plan, seed, DetEnd(seed))}}

\* --------------------------------------------------------------- the state
\* a driver that is not running holds nothing: "none" before its start,
\* "done" after its return
NoDriver ==
    [pc |-> "none", seed |-> None, maps |-> NoMaps, ctor |-> FALSE,
     fin |-> NoReturn, alt |-> NoPromise]
DoneDriver == [NoDriver EXCEPT !.pc = "done"]
NoChans == [preview |-> <<>>, solution |-> <<>>, planner |-> <<>>, smooth |-> <<>>]
NoPlanner == [pc |-> "none", prev |-> FALSE, end |-> None, seed |-> None, maps |-> NoMaps]
DonePlanner == [NoPlanner EXCEPT !.pc = "done"]
NoSmoother == [pc |-> "none", input |-> <<>>]
DoneSmoother == [NoSmoother EXCEPT !.pc = "done"]
NoPaw == [returned |-> FALSE, path |-> <<>>, err |-> NoErr]
NoRet == [returned |-> FALSE, path |-> <<>>, err |-> NoErr, prefixed |-> FALSE]

\* nothing is being decomposed, judged, or kept in a collision graph
NoSetup == [pc |-> "none"]
NoJudged == [pc |-> "none"]
NoGraph == [pc |-> "none"]
NoEncoder == [pc |-> "none"]
NoStream == [pc |-> "none"]
NoService == [pc |-> "none"]

\* A request: the number of atomic waypoints it decomposes into, whether the
\* planners built for it are parallel planners, whether its options carry a
\* fallback, the caller's seed; faults: whether IK, planners and planner
\* constructors may fail in the world it runs in.
\* Several atomic waypoints come from the linear motion profile only, and the
\* options built for that profile never carry a fallback.
RequestsIn(W) ==
    {r \in [numGoals : 1..MaxGoals, parallel : BOOLEAN, fallback : BOOLEAN,
            faults : BOOLEAN, seed : {0}, world : W] :
        r.fallback => r.numGoals = 1}

Requests == RequestsIn({AnyWorld})

\* no request is being planned
IdleRequest ==
    [numGoals |-> 1, parallel |-> FALSE, fallback |-> FALSE, faults |-> FALSE,
     seed |-> 0, world |-> AnyWorld]

PlanInit(R) ==
    /\ req \in R
    /\ ctxDone = FALSE
    /\ orch = [pc |-> "setup", viability |-> "none", i |-> 0, j |-> 0,
               seed |-> None, seeds |-> <<>>, promises |-> <<>>, yielded |-> <<>>,
               resultSlices |-> <<>>, paw |-> NoPaw]
    /\ ret = NoRet
    /\ drv = [k \in Inst |-> NoDriver]
    /\ chan = [k \in Inst |-> NoChans]
    /\ plr = [k \in Inst |-> NoPlanner]
    /\ smo = [k \in Inst |-> NoSmoother]
    /\ sent = [k \in Inst |-> [preview |-> 0, solution |-> 0]]
    /\ outOfOrder = FALSE

InitWith(R) ==
    /\ PlanInit(R)
    /\ setup = NoSetup
    /\ judged = NoJudged
    /\ graph = NoGraph
    /\ enc = NoEncoder
    /\ stream = NoStream
    /\ svc = NoService

\* requests of one atomic waypoint
Init == InitWith({r \in Requests : r.numGoals = 1})

\* requests with an explicit planning algorithm: no fallback
InitPipeline == InitWith({r \in Requests : ~r.fallback})

\* The context of the request ends: the caller cancels it or its timeout fires.
Cancel ==
    /\ ~ctxDone
    /\ ctxDone' = TRUE
    /\ UNCHANGED <<unitVars, req, orch, ret, drv, chan, plr, smo, sent, outOfOrder>>

\* ------------------------------------------------------- result promises
\* resultPromise.result(ctx): what awaiting promise p can yield when its
\* future channel holds sol and the context is done or not.  A materialised
\* promise yields its steps at once; a future yields the context's error or
\* the message of the channel (recv: the message is taken from the channel).
resultOutcomes(p, sol, done) ==
    IF p.kind = "ready" /\ p.steps # <<>>
    THEN {[steps |-> p.steps, err |-> NoErr, recv |-> FALSE]}
    ELSE (IF done
          THEN {[steps |-> <<>>, err |-> CtxErr, recv |-> FALSE]}
          ELSE {})
         \cup
         (IF p.kind = "future" /\ sol # <<>>
          THEN {[steps |-> IF Head(sol).planerr # NoErr THEN <<>> ELSE Head(sol).steps,
                 err |-> Head(sol).planerr, recv |-> TRUE]}
          ELSE {})

\* the channel behind promise p
FutureChan(p) == IF p.kind = "future" THEN chan[p.of].solution ELSE <<>>

\* ---------------------------------------------------------- the orchestrator
\* planAtomicWaypoints' returns
\* (variant: an error return that hands back the sub-paths collected so far)
pawReturnErrorKeepsPath(resultSlices, err) ==
    [returned |-> TRUE, path |-> resultSlices, err |-> err]

pawReturnError(resultSlices, err) ==
    [returned |-> TRUE, path |-> <<>>, err |-> err]

pawReturnOk(resultSlices) ==
    [returned |-> TRUE, path |-> resultSlices, err |-> NoErr]

\* PlanSingleWaypoint's return of what planAtomicWaypoints returned
\* (variant: the error is prefixed whatever the number of goals)
pswReturnPrefixed(numGoals, paw) ==
    IF paw.err # NoErr
    THEN [returned |-> TRUE, path |-> <<>>, err |-> paw.err, prefixed |-> TRUE]
    ELSE [returned |-> TRUE, path |-> paw.path, err |-> NoErr, prefixed |-> FALSE]

pswReturn(numGoals, paw) ==
    IF paw.err # NoErr
    THEN [returned |-> TRUE, path |-> <<>>, err |-> paw.err, prefixed |-> numGoals > 1]
    ELSE [returned |-> TRUE, path |-> paw.path, err |-> NoErr, prefixed |-> FALSE]

\* resultSlices = append(resultSlices, steps...)
\* (variant: the new sub-path is put in front)
AppendStepsReversed(resultSlices, steps) == steps \o resultSlices

AppendSteps(resultSlices, steps) == resultSlices \o steps

\* the seed of the next waypoint when the path of this one is known
\* (variant: the first configuration of the path)
NextSeedFirst(steps) == steps[1]

NextSeed(steps) == Last(steps)

\* the orchestrator after planAtomicWaypoints returned paw
Finished(paw) == [orch EXCEPT !.pc = "done", !.paw = paw]

\* len(goals) > 1: the final goal's IK viability is checked
\* (variant: it is checked for every request)
NeedsViabilityAlways(numGoals) == TRUE

NeedsViability(numGoals) == numGoals > 1

\* How PlanSingleWaypoint gets to its call of planAtomicWaypoints: an error of
\* the set-up (seed map, transforms, options, planner constructors), a failed
\* viability check, or neither.
SetupOutcomes(numGoals) ==
    {"ok"}
    \cup (IF req.faults THEN {"setup"} ELSE {})
    \cup (IF req.faults /\ NeedsViability(numGoals) THEN {"viability"} ELSE {})

\* PlanSingleWaypoint's return of an error of its own
pswError(err) == [returned |-> TRUE, path |-> <<>>, err |-> err, prefixed |-> FALSE]

\* PlanSingleWaypoint up to its call of planAtomicWaypoints: with more than one
\* goal the final goal's IK viability is checked first.
OrchSetup ==
    /\ orch.pc = "setup"
    /\ \E out \in SetupOutcomes(req.numGoals) :
         CASE out = "ok" ->
                /\ orch' = [orch EXCEPT !.pc = "loop", !.seed = req.seed,
                                        !.viability = IF NeedsViability(req.numGoals)
                                                      THEN "passed" ELSE "none"]
                /\ ret' = ret
           [] out = "setup" ->
                /\ orch' = [orch EXCEPT !.pc = "done"]
                /\ ret' = pswError(<<"setup", 0>>)
           [] out = "viability" ->
                /\ orch' = [orch EXCEPT !.pc = "done", !.viability = "failed"]
                /\ ret' = pswError(<<"viability", 0>>)
    /\ UNCHANGED <<unitVars, req, ctxDone, drv, chan, plr, smo, sent, outOfOrder>>

\* the promise and the next seed of waypoint orch.i are known: next iteration
Submitted(newseed, future) ==
    [orch EXCEPT !.seed = newseed,
                 !.promises = Append(@, future),
                 !.i = @ + 1,
                 !.pc = IF orch.i + 1 = req.numGoals THEN "await" ELSE "loop"]

\* One iteration of planAtomicWaypoints' first loop up to the select of
\* planSingleAtomicWaypoint (parallel planner), or the whole of it (plan()).
OrchSubmit ==
    /\ orch.pc = "loop"
    /\ IF ctxDone
       THEN /\ orch' = Finished(pawReturnError(orch.resultSlices, CtxErr))
            /\ ret' = pswReturn(req.numGoals, orch'.paw)
            /\ drv' = drv
       ELSE IF req.parallel
       THEN /\ orch' = [orch EXCEPT !.pc = "select", !.seeds = Append(@, orch.seed)]
            /\ ret' = ret
            /\ drv' = [drv EXCEPT ![<<orch.i, 1>>] =
                         [NoDriver EXCEPT !.pc = "start", !.seed = orch.seed]]
       ELSE /\ \E out \in SerialOutcomes(orch.seed) :
                 IF out.planerr # NoErr
                 THEN /\ orch' = [Finished(pawReturnError(orch.resultSlices, out.planerr))
                                    EXCEPT !.seeds = Append(@, orch.seed)]
                      /\ ret' = pswReturn(req.numGoals, orch'.paw)
                 ELSE /\ orch' = [Submitted(NextSeed(out.steps), ReadyPromise(out.steps))
                                    EXCEPT !.seeds = Append(@, orch.seed)]
                      /\ ret' = ret
            /\ drv' = drv
    /\ UNCHANGED <<unitVars, req, ctxDone, chan, plr, smo, sent, outOfOrder>>

ctxDoneCaseMissing(done) == FALSE

\* the case <-ctx.Done() of planSingleAtomicWaypoint's select can be taken
ctxDoneCase(done) == done

\* The select of planSingleAtomicWaypoint on endpointPreview, solutionChan and
\* ctx.Done().
PreviewSeedKept(nextSeed) == orch.seed

\* the previewed node's configuration is the next waypoint's seed
PreviewSeed(nextSeed) == nextSeed

OrchSelectPreview ==
    /\ orch.pc = "select"
    /\ chan[<<orch.i, 1>>].preview # <<>>
    /\ orch' = Submitted(PreviewSeed(Head(chan[<<orch.i, 1>>].preview)),
                         FuturePromise(<<orch.i, 1>>))
    /\ chan' = [chan EXCEPT ![<<orch.i, 1>>].preview = Tail(@)]
    /\ UNCHANGED <<unitVars, req, ctxDone, ret, drv, plr, smo, sent, outOfOrder>>

OrchSelectSolution ==
    /\ orch.pc = "select"
    /\ chan[<<orch.i, 1>>].solution # <<>>
    /\ LET planReturn == Head(chan[<<orch.i, 1>>].solution) IN
         IF planReturn.planerr # NoErr
         THEN /\ orch' = Finished(pawReturnError(orch.resultSlices, planReturn.planerr))
              /\ ret' = pswReturn(req.numGoals, orch'.paw)
         ELSE /\ orch' = Submitted(NextSeed(planReturn.steps), ReadyPromise(planReturn.steps))
              /\ ret' = ret
    /\ chan' = [chan EXCEPT ![<<orch.i, 1>>].solution = Tail(@)]
    /\ UNCHANGED <<unitVars, req, ctxDone, drv, plr, smo, sent, outOfOrder>>

OrchSelectDone ==
    /\ orch.pc = "select"
    /\ ctxDoneCase(ctxDone)
    /\ orch' = Finished(pawReturnError(orch.resultSlices, CtxErr))
    /\ ret' = pswReturn(req.numGoals, orch'.paw)
    /\ UNCHANGED <<unitVars, req, ctxDone, drv, chan, plr, smo, sent, outOfOrder>>

\* One iteration of planAtomicWaypoints' second loop: the promise of waypoint
\* orch.j is awaited; after the last one the composite path is returned.
OrchAwait ==
    /\ orch.pc = "await"
    /\ LET future == orch.promises[orch.j + 1] IN
       \E r \in resultOutcomes(future, FutureChan(future), ctxDone) :
         /\ IF r.err # NoErr
            THEN orch' = Finished(pawReturnError(orch.resultSlices, r.err))
            ELSE LET slices == AppendSteps(orch.resultSlices, r.steps) IN
                 IF orch.j + 1 = Len(orch.promises)
                 THEN orch' = [Finished(pawReturnOk(slices)) EXCEPT
                                 !.resultSlices = slices, !.j = @ + 1,
                                 !.yielded = Append(@, r.steps)]
                 ELSE orch' = [orch EXCEPT !.resultSlices = slices, !.j = @ + 1,
                                           !.yielded = Append(@, r.steps)]
         /\ ret' = IF orch'.paw.returned THEN pswReturn(req.numGoals, orch'.paw) ELSE ret
         /\ chan' = IF r.recv THEN [chan EXCEPT ![future.of].solution = Tail(@)] ELSE chan
    /\ UNCHANGED <<unitVars, req, ctxDone, drv, plr, smo, sent, outOfOrder>>

\* ----------------------------------------------------------------- drivers
\* opt().Fallback != nil: plannerSetupFromMoveRequest splices a fallback into
\* the try-first options only, and the fallback's options have none.
HasFallback(k) == k[2] = 1 /\ req.fallback

\* the driver of the fallback of k
Kid(k) == <<k[1], 2>>

\* endpointPreview as handed to the planner: nil once the manager has used it
\* (variant: the channel is not set to nil after the manager's send)
PlannerPreviewKept(single) == TRUE

PlannerPreview(single) == ~single

\* mapSeed: the maps of the primary's return, nil for a connected but bad path
\* (variant: mapSeed is never reset)
MapSeedKept(finalSteps, fallbackPlanner) == finalSteps.maps

MapSeed(finalSteps, fallbackPlanner) ==
    IF finalSteps.planerr = NoErr /\ fallbackPlanner /\ ~goodPlan(finalSteps)[1]
    THEN NoMaps
    ELSE finalSteps.maps

\* fallbackPlanner != nil after the quality check of the primary's return
\* (variants: the quality check is skipped; the fallback is dropped after an error)
RunFallbackAlways(finalSteps, constructed) == constructed

RunFallbackAfterPathOnly(finalSteps, constructed) ==
    /\ constructed
    /\ finalSteps.planerr = NoErr
    /\ ~goodPlan(finalSteps)[1]

RunFallback(finalSteps, constructed) ==
    /\ constructed
    /\ ~(finalSteps.planerr = NoErr /\ goodPlan(finalSteps)[1])

\* the fallback's path replaces the primary's
\* (variant: a path of equal cost replaces it too)
BetterOrEqual(altCost, score) == altCost <= score

Better(altCost, score) == altCost < score

\* finalSteps after the comparison with what the fallback's promise yielded
\* (variant: an error of the fallback's promise is sent instead)
KeepFallbackError(finalSteps, r) ==
    IF r.err # NoErr
    THEN PlanReturn(<<>>, r.err, NoMaps)
    ELSE IF Better(EvaluatePlan(r.steps), goodPlan(finalSteps)[2])
         THEN PlanReturn(r.steps, NoErr, NoMaps)
         ELSE finalSteps

Winner(finalSteps, r) ==
    IF r.err = NoErr /\ Better(EvaluatePlan(r.steps), goodPlan(finalSteps)[2])
    THEN PlanReturn(r.steps, NoErr, NoMaps)
    ELSE finalSteps

\* the check of the context between the start of the planner and the select:
\* the driver returns when the context is done
\* (variant: it returns whatever the context's state)
ReturnsBeforeSelectAlways(done) == TRUE

ReturnsBeforeSelect(done) == done

\* solutionChan <- msg on the channels ch, as the driver returns
Emit(k, msg, ch) ==
    /\ Len(ch[k].solution) < 1
    /\ chan' = [ch EXCEPT ![k].solution = Append(@, msg)]
    /\ sent' = [sent EXCEPT ![k].solution = @ + 1]
    /\ outOfOrder' = (outOfOrder \/ (k[2] = 1 /\ \E j \in 0..(k[1] - 1) :
                                        sent[<<j, 1>>].solution = 0))

\* planParallelRRTMotion up to its select: IK seeding when no maps were passed,
\* the endpoint preview of a single IK solution, the start of the planner and
\* the check of the context.
DriverStart(k) ==
    /\ drv[k].pc = "start"
    /\ \E planSeed \in (IF drv[k].maps = NoMaps
                        THEN initRRTSolutions(k[2], drv[k].seed)
                        ELSE {PlanReturn(<<>>, NoErr, drv[k].maps)}) :
         IF planSeed.planerr # NoErr \/ planSeed.steps # <<>>
         THEN /\ Emit(k, planSeed, chan)
              /\ drv' = [drv EXCEPT ![k] = DoneDriver]
              /\ plr' = plr
         ELSE LET single == Cardinality(planSeed.maps.goals) = 1
                  nextSeed == CHOOSE g \in planSeed.maps.goals : TRUE
              IN
              /\ chan' = [chan EXCEPT ![k].preview =
                            IF single THEN Append(@, nextSeed) ELSE @]
              /\ sent' = [sent EXCEPT ![k].preview = IF single THEN @ + 1 ELSE @]
              /\ outOfOrder' = outOfOrder
              /\ plr' = [plr EXCEPT ![k] = [pc |-> "running",
                                            prev |-> PlannerPreview(single),
                                            end |-> None,
                                            seed |-> drv[k].seed,
                                            maps |-> planSeed.maps]]
              /\ drv' = [drv EXCEPT ![k] =
                           IF ReturnsBeforeSelect(ctxDone)
                           THEN DoneDriver
                           ELSE [@ EXCEPT !.pc = "waitPlanner", !.maps = NoMaps]]
    /\ UNCHANGED <<unitVars, req, ctxDone, orch, ret, smo>>

StartSmoothingNot(steps) == NoSmoother

\* the execution unit that sends pathPlanner.smoothPath(ctx, finalSteps.steps)
\* on smoothChan, started before the fallback
StartSmoothing(steps) == [pc |-> "running", input |-> steps]

\* The select on plannerChan fires: the fallback planner is constructed, the
\* primary's path is judged, smoothing is started, and the fallback is started
\* through planSingleAtomicWaypoint up to its select.
DriverRecvPlanner(k) ==
    /\ drv[k].pc = "waitPlanner"
    /\ chan[k].planner # <<>>
    /\ LET finalSteps == Head(chan[k].planner) IN
       \E constructed \in (IF HasFallback(k)
                           THEN (IF req.faults THEN BOOLEAN ELSE {TRUE})
                           ELSE {FALSE}) :
         LET fallbackPlanner == RunFallback(finalSteps, constructed)
             mapSeed == MapSeed(finalSteps, constructed)
         IN
         /\ chan' = [chan EXCEPT ![k].planner = Tail(@)]
         /\ smo' = [smo EXCEPT ![k] = StartSmoothing(finalSteps.steps)]
         /\ drv' = [drv EXCEPT
                      ![k] = [@ EXCEPT !.fin = finalSteps,
                                       !.ctor = constructed,
                                       !.seed = None,
                                       !.pc = IF fallbackPlanner /\ ~ctxDone
                                              THEN "fbSelect" ELSE "waitSmooth"],
                      ![Kid(k)] = IF fallbackPlanner
                                  THEN [NoDriver EXCEPT !.pc = "start",
                                                        !.seed = drv[k].seed,
                                                        !.maps = mapSeed]
                                  ELSE @]
    /\ UNCHANGED <<unitVars, req, ctxDone, orch, ret, plr, sent, outOfOrder>>

\* The select on plannerChan takes ctx.Done(): nothing is sent.
DriverCtxDone(k) ==
    /\ drv[k].pc = "waitPlanner"
    /\ ctxDone
    /\ drv' = [drv EXCEPT ![k] = DoneDriver]
    /\ UNCHANGED <<unitVars, req, ctxDone, orch, ret, chan, plr, smo, sent, outOfOrder>>

\* The select of planSingleAtomicWaypoint, called for the fallback.
DriverFbPreview(k) ==
    /\ drv[k].pc = "fbSelect"
    /\ chan[Kid(k)].preview # <<>>
    /\ chan' = [chan EXCEPT ![Kid(k)].preview = Tail(@)]
    /\ drv' = [drv EXCEPT ![k].pc = "waitSmooth", ![k].alt = FuturePromise(Kid(k))]
    /\ UNCHANGED <<unitVars, req, ctxDone, orch, ret, plr, smo, sent, outOfOrder>>

DriverFbSolution(k) ==
    /\ drv[k].pc = "fbSelect"
    /\ chan[Kid(k)].solution # <<>>
    /\ chan' = [chan EXCEPT ![Kid(k)].solution = Tail(@)]
    /\ LET planReturn == Head(chan[Kid(k)].solution) IN
         drv' = [drv EXCEPT ![k].pc = "waitSmooth",
                            ![k].alt = IF planReturn.planerr # NoErr
                                       THEN NoPromise
                                       ELSE ReadyPromise(planReturn.steps)]
    /\ UNCHANGED <<unitVars, req, ctxDone, orch, ret, plr, smo, sent, outOfOrder>>

DriverFbDone(k) ==
    /\ drv[k].pc = "fbSelect"
    /\ ctxDoneCase(ctxDone)
    /\ drv' = [drv EXCEPT ![k].pc = "waitSmooth", ![k].alt = NoPromise]
    /\ UNCHANGED <<unitVars, req, ctxDone, orch, ret, chan, plr, smo, sent, outOfOrder>>

SmoothedDropped(finalSteps, smoothed) == finalSteps

\* finalSteps.steps = <-smoothChan
Smoothed(finalSteps, smoothed) == [finalSteps EXCEPT !.steps = smoothed]

\* finalSteps.steps = <-smoothChan; without a fallback promise the primary's
\* result is sent on solutionChan.
DriverRecvSmooth(k) ==
    /\ drv[k].pc = "waitSmooth"
    /\ chan[k].smooth # <<>>
    /\ LET finalSteps == Smoothed(drv[k].fin, Head(chan[k].smooth))
           received == [chan EXCEPT ![k].smooth = Tail(@)]
       IN
       IF drv[k].alt = NoPromise
       THEN /\ Emit(k, finalSteps, received)
            /\ drv' = [drv EXCEPT ![k] = DoneDriver]
       ELSE /\ chan' = received
            /\ drv' = [drv EXCEPT ![k].fin = finalSteps, ![k].pc = "awaitAlt"]
            /\ UNCHANGED <<sent, outOfOrder>>
    /\ UNCHANGED <<unitVars, req, ctxDone, orch, ret, plr, smo>>

\* alternateFuture.result(ctx), the comparison, and the send on solutionChan.
DriverAwaitAlt(k) ==
    /\ drv[k].pc = "awaitAlt"
    /\ \E r \in resultOutcomes(drv[k].alt, FutureChan(drv[k].alt), ctxDone) :
         LET received == IF r.recv
                         THEN [chan EXCEPT ![Kid(k)].solution = Tail(@)]
                         ELSE chan
         IN
         /\ Emit(k, Winner(drv[k].fin, r), received)
         /\ drv' = [drv EXCEPT ![k] = DoneDriver]
    /\ UNCHANGED <<unitVars, req, ctxDone, orch, ret, plr, smo>>

\* ------------------------------------------------- planners and smoothing
\* rrtBackgroundRunner posts the endpoint it has committed to, when it was
\* handed the preview channel, at most once.
PlannerPostPreview(k) ==
    /\ plr[k].pc = "running"
    /\ plr[k].prev
    /\ Len(chan[k].preview) < 1
    /\ \E e \in PreviewOutcomes(plr[k].maps) :
         /\ chan' = [chan EXCEPT ![k].preview = Append(@, e)]
         /\ plr' = [plr EXCEPT ![k].prev = FALSE, ![k].end = e]
    /\ sent' = [sent EXCEPT ![k].preview = @ + 1]
    /\ UNCHANGED <<unitVars, req, ctxDone, orch, ret, drv, smo, outOfOrder>>

\* rrtBackgroundRunner posts its result on plannerChan and returns.
PlannerFinish(k) ==
    /\ plr[k].pc = "running"
    /\ Len(chan[k].planner) < 1
    /\ \E out \in PlannerOutcomes(k[2], plr[k].seed, plr[k].maps, plr[k].end) :
         chan' = [chan EXCEPT ![k].planner = Append(@, out)]
    /\ plr' = [plr EXCEPT ![k] = DonePlanner]
    /\ UNCHANGED <<unitVars, req, ctxDone, orch, ret, drv, smo, sent, outOfOrder>>

\* smoothChan <- pathPlanner.smoothPath(ctx, finalSteps.steps)
Smooth(k) ==
    /\ smo[k].pc = "running"
    /\ Len(chan[k].smooth) < 1
    /\ \E steps \in SmoothOutcomes(smo[k].input) :
         chan' = [chan EXCEPT ![k].smooth = Append(@, steps)]
    /\ smo' = [smo EXCEPT ![k] = DoneSmoother]
    /\ UNCHANGED <<unitVars, req, ctxDone, orch, ret, drv, plr, sent, outOfOrder>>

Next ==
    \/ Cancel
    \/ OrchSetup
    \/ OrchSubmit
    \/ OrchSelectPreview
    \/ OrchSelectSolution
    \/ OrchSelectDone
    \/ OrchAwait
    \/ \E k \in Inst : DriverStart(k)
    \/ \E k \in Inst : DriverRecvPlanner(k)
    \/ \E k \in Inst : DriverCtxDone(k)
    \/ \E k \in Inst : DriverFbPreview(k)
    \/ \E k \in Inst : DriverFbSolution(k)
    \/ \E k \in Inst : DriverFbDone(k)
    \/ \E k \in Inst : DriverRecvSmooth(k)
    \/ \E k \in Inst : DriverAwaitAlt(k)
    \/ \E k \in Inst : PlannerPostPreview(k)
    \/ \E k \in Inst : PlannerFinish(k)
    \/ \E k \in Inst : Smooth(k)

Spec == Init /\ [][Next]_vars

\* the steps of PlanSingleWaypoint and planAtomicWaypoints
OrchStep ==
    \/ OrchSetup
    \/ OrchSubmit
    \/ OrchSelectPreview
    \/ OrchSelectSolution
    \/ OrchSelectDone
    \/ OrchAwait

\* the steps of the goroutine that runs planParallelRRTMotion for k
DriverStep(k) ==
    \/ DriverStart(k)
    \/ DriverRecvPlanner(k)
    \/ DriverCtxDone(k)
    \/ DriverFbPreview(k)
    \/ DriverFbSolution(k)
    \/ DriverFbDone(k)
    \/ DriverRecvSmooth(k)
    \/ DriverAwaitAlt(k)

\* Every goroutine that can take a step takes one; a planner returns, its
\* context being bounded by its timeout, and a smoother returns.  A planner
\* need not post a preview and the context need not be cancelled.
Fairness ==
    /\ WF_vars(OrchStep)
    /\ \A k \in Inst : WF_vars(DriverStep(k))
    /\ \A k \in Inst : WF_vars(PlannerFinish(k))
    /\ \A k \in Inst : WF_vars(Smooth(k))

SpecFair == Init /\ [][Next]_vars /\ Fairness

\* without a fallback the drivers never reach the fallback's steps
NextPipeline ==
    \/ Cancel
    \/ OrchSetup
    \/ OrchSubmit
    \/ OrchSelectPreview
    \/ OrchSelectSolution
    \/ OrchSelectDone
    \/ OrchAwait
    \/ \E k \in Inst : DriverStart(k)
    \/ \E k \in Inst : DriverRecvPlanner(k)
    \/ \E k \in Inst : DriverCtxDone(k)
    \/ \E k \in Inst : DriverRecvSmooth(k)
    \/ \E k \in Inst : PlannerPostPreview(k)
    \/ \E k \in Inst : PlannerFinish(k)
    \/ \E k \in Inst : Smooth(k)

SpecPipeline == InitPipeline /\ [][NextPipeline]_vars

\* requests in worlds whose IK, planners and smoothing are fixed
InitFixed == InitWith(RequestsIn(Worlds))

SpecFixed == InitFixed /\ [][Next]_vars

\* ============================================ option set-up and decomposition
\* Bound on the step count PathStepCount reports for a linear move.
MaxSteps == 3

\* defaultFallbackTimeout, 1.5 s, in tenths of a second
defaultFallbackTimeout == 15

\* the values a request's extra map gives to motion_profile, planning_alg,
\* timeout (tenths of a second), rseed and a key the set-up does not know;
\* "" and None stand for an absent key
Profiles == {"", "linear", "pseudolinear", "orientation", "position_only", "free", "other"}
Algs == {"", "cbirrt", "rrtstar", "other"}
Timeouts == {None, 50}
Rseeds == {None, 7}
Others == {None, 1}
MotionConfigs == [motion_profile : Profiles, planning_alg : Algs, timeout : Timeouts,
                  rseed : Rseeds, other : Others]

\* a nil *plannerOptions
NoOptions == [PlannerConstructor |-> "nil"]

\* a constraint of a bundle; the collision constraints take no poses
Constraint(name, from, to) == [name |-> name, from |-> from, to |-> to]
CollisionConstraints == {Constraint("obstacle", None, None), Constraint("self_collision", None, None)}

\* the defaults: the default constructor, timeout and metric, no constraint,
\* no fallback
newBasicPlannerOptions ==
    [PlannerConstructor |-> "default",
     Timeout |-> <<"default", 0>>,
     constraints |-> {},
     metric |-> "default",
     extra |-> <<>>,
     Fallback |-> NoOptions]

\* the defaults with the extra map, the collision constraints, and the extra
\* map's timeout unmarshalled over the default
BasicOptions(planningOpts) ==
    [newBasicPlannerOptions EXCEPT
        !.extra = planningOpts,
        !.constraints = @ \cup CollisionConstraints,
        !.Timeout = IF planningOpts.timeout = None THEN @
                    ELSE <<"set", planningOpts.timeout>>]

\* the planning_alg switch
AlgConstructor(planAlg, default) ==
    CASE planAlg = "cbirrt" -> "cbirrt"
      [] planAlg = "rrtstar" -> "rrtstar"
      [] OTHER -> default

ReturnsEarlyNever(planAlg) == FALSE

\* RRT* takes no motion profile: its bundle is returned before the profile switch
ReturnsEarly(planAlg) == planAlg = "rrtstar"

\* the profile switch
ProfileOptions(opt, motionProfile, from, to) ==
    CASE motionProfile \in {"linear", "pseudolinear", "orientation"} ->
             [opt EXCEPT !.constraints = @ \cup {Constraint(motionProfile, from, to)}]
      [] motionProfile = "position_only" -> [opt EXCEPT !.metric = "position_only"]
      [] OTHER -> opt

SplicesFallbackAnyProfile(motionProfile, planAlg) == planAlg = ""

\* only the free profile and the switch's default case reach the fallback splice
SplicesFallback(motionProfile, planAlg) ==
    /\ motionProfile \notin {"linear", "pseudolinear", "orientation", "position_only"}
    /\ planAlg = ""

deepAtomicCopyMapAliased(maps, ref) == [maps |-> maps, ref |-> ref]

\* the maps of a call, the caller's map first, after a copy of map ref: the
\* copy is a new map with the keys and values of the copied one
deepAtomicCopyMap(maps, ref) ==
    [maps |-> Append(maps, [k \in DOMAIN maps[ref] |-> maps[ref][k]]),
     ref |-> Len(maps) + 1]

try1WritesTimeoutFirst(maps, ref) ==
    IF maps[ref].timeout # defaultFallbackTimeout
    THEN [maps EXCEPT ![ref].timeout = defaultFallbackTimeout]
    ELSE [maps EXCEPT ![ref].planning_alg = "rrtstar"]

\* try1["timeout"] = defaultFallbackTimeout; try1["planning_alg"] = "rrtstar"
try1Writes(maps, ref) ==
    [maps EXCEPT ![ref].timeout = defaultFallbackTimeout,
                 ![ref].planning_alg = "rrtstar"]

\* the maps of a call that splices a fallback: the caller's map, maps[1], and
\* the map of the try-first attempt, maps[try1]
try1Maps(planningOpts) ==
    LET copied == deepAtomicCopyMap(<<planningOpts>>, 1)
    IN  [maps |-> try1Writes(copied.maps, copied.ref), try1 |-> copied.ref]

\* opt.extra is the caller's map itself, so a bundle's extra is that map as
\* the call leaves it
RECURSIVE plannerSetupFromMoveRequest(_, _, _)
plannerSetupFromMoveRequest(from, to, planningOpts) ==
    LET planAlg == planningOpts.planning_alg
        motionProfile == planningOpts.motion_profile
        chosen == [BasicOptions(planningOpts) EXCEPT
                      !.PlannerConstructor = AlgConstructor(planAlg, @)]
        opt == ProfileOptions(chosen, motionProfile, from, to)
        spliced == try1Maps(planningOpts)
    IN  IF ReturnsEarly(planAlg) THEN chosen
        ELSE IF SplicesFallback(motionProfile, planAlg)
             THEN [plannerSetupFromMoveRequest(from, to, spliced.maps[spliced.try1])
                      EXCEPT !.Fallback = [opt EXCEPT !.extra = spliced.maps[1]]]
             ELSE opt

\* the caller's map as a call of plannerSetupFromMoveRequest leaves it
mapAfterSetup(planningOpts) ==
    IF ~ReturnsEarly(planningOpts.planning_alg)
       /\ SplicesFallback(planningOpts.motion_profile, planningOpts.planning_alg)
    THEN try1Maps(planningOpts).maps[1]
    ELSE planningOpts

\* the nested calls of plannerSetupFromMoveRequest a call makes, its own
\* nested calls' included
RECURSIVE nestedCalls(_)
nestedCalls(planningOpts) ==
    IF ~ReturnsEarly(planningOpts.planning_alg)
       /\ SplicesFallback(planningOpts.motion_profile, planningOpts.planning_alg)
    THEN LET spliced == try1Maps(planningOpts)
         IN  1 + nestedCalls(spliced.maps[spliced.try1])
    ELSE 0

\* spatialmath.Interpolate between two poses on a line, by i/numSteps
Interpolate(p1, p2, i, numSteps) == p1 + ((p2 - p1) * i) \div numSteps

NextFromKept(from, to) == from

\* the loop's "from = to"
NextFrom(from, to) == to

\* the random source of a planner: the request's rseed, or the next draw of
\* the manager's source
RandSeed(opt, draws) ==
    IF opt.extra.rseed # None THEN <<"rseed", opt.extra.rseed>> ELSE <<"draw", draws + 1>>

\* PlanSingleWaypoint before its decomposition: the poses, the extra map and
\* the step count PathStepCount reports
InitSetup ==
    /\ PlanInit({IdleRequest})
    /\ enc = NoEncoder
    /\ stream = NoStream
    /\ svc = NoService
    /\ setup \in [pc : {"decompose"}, motionConfig : MotionConfigs,
                  seedPos : {0}, goalPos : {60, 120}, numSteps : 0..MaxSteps,
                  i : {1}, from : {0}, goals : {<<>>}, calls : {<<>>},
                  opts : {<<>>}, nested : {<<>>}, planners : {<<>>}, draws : {0}]
    /\ judged = NoJudged
    /\ graph = NoGraph

IsLinear(motionConfig) == motionConfig.motion_profile = "linear"

\* one turn of the linear profile's loop
DecomposeStep ==
    /\ setup.pc = "decompose"
    /\ IsLinear(setup.motionConfig)
    /\ setup.i < setup.numSteps
    /\ LET to == Interpolate(setup.seedPos, setup.goalPos, setup.i, setup.numSteps)
       IN  setup' = [setup EXCEPT
                        !.goals = Append(@, to),
                        !.calls = Append(@, <<setup.from, to>>),
                        !.opts = Append(@, plannerSetupFromMoveRequest(setup.from, to, setup.motionConfig)),
                        !.nested = Append(@, nestedCalls(setup.motionConfig)),
                        !.motionConfig = mapAfterSetup(setup.motionConfig),
                        !.from = NextFrom(setup.from, to),
                        !.i = @ + 1]
    /\ UNCHANGED <<planVars, enc, stream, svc, judged, graph>>

\* the last goal is the goal pose, planned from where the loop ended
DecomposeLast ==
    /\ setup.pc = "decompose"
    /\ ~(IsLinear(setup.motionConfig) /\ setup.i < setup.numSteps)
    /\ setup' = [setup EXCEPT
                    !.pc = "construct",
                    !.goals = Append(@, setup.goalPos),
                    !.calls = Append(@, <<setup.from, setup.goalPos>>),
                    !.opts = Append(@, plannerSetupFromMoveRequest(setup.from, setup.goalPos,
                                                                   setup.motionConfig)),
                    !.nested = Append(@, nestedCalls(setup.motionConfig)),
                    !.motionConfig = mapAfterSetup(setup.motionConfig)]
    /\ UNCHANGED <<planVars, enc, stream, svc, judged, graph>>

\* one planner per option bundle, each with its own random source
ConstructPlanner ==
    /\ setup.pc = "construct"
    /\ Len(setup.planners) < Len(setup.opts)
    /\ LET opt == setup.opts[Len(setup.planners) + 1]
           randseed == RandSeed(opt, setup.draws)
       IN  setup' = [setup EXCEPT
                        !.planners = Append(@, [constructor |-> opt.PlannerConstructor,
                                                randseed |-> randseed, opt |-> opt]),
                        !.draws = IF randseed[1] = "draw" THEN @ + 1 ELSE @,
                        !.pc = IF Len(setup.planners) + 1 = Len(setup.opts)
                               THEN "built" ELSE "construct"]
    /\ UNCHANGED <<planVars, enc, stream, svc, judged, graph>>

NextSetup ==
    \/ DecomposeStep
    \/ DecomposeLast
    \/ ConstructPlanner

SpecSetup == InitSetup /\ [][NextSetup]_vars

\* ==================================================================== goodPlan
\* plan returns handed to goodPlan: no path, or a path of two or three
\* configurations, with the cost of the optimal node from below zero upwards
JudgedPaths ==
    {<<>>} \cup ((0..Detour) \X (0..Detour)) \cup ((0..Detour) \X (0..Detour) \X (0..Detour))
JudgedReturns ==
    {PlanReturn(steps, NoErr, [goals |-> {}, opt |-> o]) :
        steps \in JudgedPaths, o \in (-1)..(Detour + 1)}

InitGoodPlan ==
    /\ PlanInit({IdleRequest})
    /\ enc = NoEncoder
    /\ stream = NoStream
    /\ svc = NoService
    /\ setup = NoSetup
    /\ judged \in [pc : {"call"}, pr : JudgedReturns, good : {FALSE}, score : {0}]
    /\ graph = NoGraph

\* a call of goodPlan
Judge ==
    /\ judged.pc = "call"
    /\ judged' = [judged EXCEPT !.pc = "returned",
                                !.good = goodPlan(judged.pr)[1],
                                !.score = goodPlan(judged.pr)[2]]
    /\ UNCHANGED <<planVars, enc, stream, svc, setup, graph>>

NextGoodPlan == Judge

SpecGoodPlan == InitGoodPlan /\ [][NextGoodPlan]_vars

\* ============================================================= collision graph
Names == {"a", "b", "c"}

\* float64 distances: NaN, a penetration (negative) and a clearance
NaN == <<"NaN", 0>>
Distances == {NaN, <<"num", -1>>, <<"num", 1>>}
Unset == <<"unset", 0>>

InCollisionOrNaN(distance) == distance[1] = "NaN" \/ distance[2] <= 0

\* distance <= spatial.CollisionBuffer: false for NaN
InCollision(distance) == distance[1] = "num" /\ distance[2] <= 0

\* a map with the key k set to v
Put(row, k, v) == [m \in DOMAIN row \cup {k} |-> IF m = k THEN v ELSE row[m]]

\* _, ok := distances[name1][name2]: reading a row that does not exist yields
\* not ok
HasEntry(distances, name1, name2) ==
    name1 \in DOMAIN distances /\ name2 \in DOMAIN distances[name1]

\* the pairs of names, a name with itself included
NamePairs == {{a, b} : a \in Names, b \in Names}

\* a nil reference graph, and the reference graphs: what matters of one is the
\* set of pairs its collisionBetween reports
NoReference == [nil |-> TRUE, colliding |-> {}]
References ==
    {NoReference} \cup
    {[nil |-> FALSE, colliding |-> c] : c \in SUBSET {p \in NamePairs : Cardinality(p) = 2}}

\* newGeometryGraph: one empty row for every name of x.  last remembers the
\* latest distance set for a pair, checks the number of times the body of
\* newCollisionGraph's loops ran for it.
newGeometryGraph(x, y, reportDistances) ==
    [pc |-> "constructing", x |-> x, y |-> y, reportDistances |-> reportDistances,
     reference |-> NoReference,
     distances |-> [name \in x |-> [m \in {} |-> NaN]],
     last |-> [pair \in NamePairs |-> Unset],
     checks |-> [pair \in NamePairs |-> 0]]

\* setDistance; the assignment to a row that does not exist panics.  last
\* remembers the value of the latest call on the pair.
setDistance(gg, xName, yName, distance) ==
    IF HasEntry(gg.distances, yName, xName)
    THEN [gg EXCEPT !.distances[yName][xName] = distance,
                    !.last[{xName, yName}] = distance]
    ELSE IF xName \in DOMAIN gg.distances
         THEN [gg EXCEPT !.distances[xName] = Put(@, yName, distance),
                         !.last[{xName, yName}] = distance]
         ELSE [gg EXCEPT !.pc = "panicked"]

getDistance(cg, name1, name2) ==
    IF HasEntry(cg.distances, name1, name2) THEN <<cg.distances[name1][name2], TRUE>>
    ELSE IF HasEntry(cg.distances, name2, name1) THEN <<cg.distances[name2][name1], TRUE>>
    ELSE <<NaN, FALSE>>

\* collisionBetween: a distance is found and is within the collision buffer
collisionBetween(cg, name1, name2) ==
    /\ getDistance(cg, name1, name2)[2]
    /\ InCollision(getDistance(cg, name1, name2)[1])

\* the entries of the distances table that are within the collision buffer
CollidingEntries(cg) ==
    {c \in UNION {{<<xName, yName, cg.distances[xName][yName]>> :
                      yName \in DOMAIN cg.distances[xName]} :
                   xName \in DOMAIN cg.distances} : InCollision(c[3])}

\* collisions(): all colliding entries, or the first one met, in the map's
\* order, when distances are not reported
collisions(cg) ==
    IF cg.reportDistances \/ CollidingEntries(cg) = {}
    THEN {CollidingEntries(cg)}
    ELSE {{c} : c \in CollidingEntries(cg)}

\* the error of DistanceFrom or CollidesWith
CheckErr == <<"err", 0>>

\* checkCollision: the distance of two geometries when distances are
\* reported, else -Inf for a collision and +Inf for none; or an error
checkCollision(reportDistances) ==
    IF reportDistances
    THEN (Distances \ {NaN}) \cup {CheckErr}
    ELSE {<<"num", -Inf>>, <<"num", Inf>>, CheckErr}

SeenInReferenceNever(reference, xName, yName) == FALSE

\* reference != nil && reference.collisionBetween(xName, yName)
SeenInReference(reference, xName, yName) ==
    ~reference.nil /\ {xName, yName} \in reference.colliding

AlreadySetOneWay(cg, xName, yName) == HasEntry(cg.distances, xName, yName)

\* _, ok := cg.getDistance(xName, yName)
AlreadySet(cg, xName, yName) == getDistance(cg, xName, yName)[2]

\* newCollisionGraph after newGeometryGraph: a nil y is x
InitGraph ==
    /\ PlanInit({IdleRequest})
    /\ enc = NoEncoder
    /\ stream = NoStream
    /\ svc = NoService
    /\ setup = NoSetup
    /\ judged = NoJudged
    /\ \E x \in (SUBSET Names) \ {{}}, y \in (SUBSET Names) \ {{}},
          reference \in References, reportDistances \in BOOLEAN :
         graph = [newGeometryGraph(x, y, reportDistances) EXCEPT !.reference = reference]

\* one pair of newCollisionGraph's loops: skipped when the pair has a distance
\* or is a geometry with itself; a pair in collision in the reference is set
\* to NaN, any other to what checkCollision returns, whose error ends the
\* build; a collision ends the loops unless distances are reported
CheckPair(xName, yName) ==
    /\ graph.pc = "constructing"
    /\ xName \in graph.x /\ yName \in graph.y
    /\ ~AlreadySet(graph, xName, yName)
    /\ xName # yName
    /\ \E distance \in (IF SeenInReference(graph.reference, xName, yName)
                         THEN {NaN} ELSE checkCollision(graph.reportDistances)) :
         IF distance = CheckErr
         THEN graph' = [graph EXCEPT !.pc = "failed", !.checks[{xName, yName}] = @ + 1]
         ELSE graph' = [setDistance(graph, xName, yName, distance) EXCEPT
                          !.checks[{xName, yName}] = @ + 1,
                          !.pc = IF @ = "panicked" THEN @
                                 ELSE IF ~graph.reportDistances /\ InCollision(distance)
                                      THEN "built" ELSE "constructing"]
    /\ UNCHANGED <<planVars, enc, stream, svc, setup, judged>>

\* the loops end
Constructed ==
    /\ graph.pc = "constructing"
    /\ \A xName \in graph.x, yName \in graph.y :
         AlreadySet(graph, xName, yName) \/ xName = yName
    /\ graph' = [graph EXCEPT !.pc = "built"]
    /\ UNCHANGED <<planVars, enc, stream, svc, setup, judged>>

\* addCollisionSpecification for a pair of names of the graph
AddCollisionSpecification(name1, name2) ==
    /\ graph.pc = "built"
    /\ name1 \in graph.x \cup graph.y /\ name2 \in graph.x \cup graph.y
    /\ graph' = setDistance(graph, name1, name2, NaN)
    /\ UNCHANGED <<planVars, enc, stream, svc, setup, judged>>

NextGraph ==
    \/ \E xName \in Names, yName \in Names : CheckPair(xName, yName)
    \/ Constructed
    \/ \E name1 \in Names, name2 \in Names : AddCollisionSpecification(name1, name2)

SpecGraph == InitGraph /\ [][NextGraph]_vars

\* ========================================================= incremental encoder
\* Bound on the absolute value of the raw count.
MaxRaw == 3

\* the transitions counted since a Reset are told apart up to this number
MaxCounted == 2

\* offsets handed to Reset, in halves: -1, 0, 0.5 and 1
ResetOffsets == {-2, 0, 1, 2}

\* ValidateIntegerOffset: the offset has no fractional part
ValidateIntegerOffset(halves) == halves % 2 = 0

TransitionSwapped(pState, nState) ==
    IF pState = nState THEN 0
    ELSE IF pState * 4 + nState \in {1, 7, 8, 14} THEN 1
    ELSE IF pState * 4 + nState \in {2, 4, 11, 13} THEN -1
    ELSE 0

\* the switch on (pState << 2) | nState: -1 for dec(), 1 for inc(), 0 when the
\* state is the same or no case matches
Transition(pState, nState) ==
    IF pState = nState THEN 0
    ELSE IF pState * 4 + nState \in {1, 7, 8, 14} THEN -1
    ELSE IF pState * 4 + nState \in {2, 4, 11, 13} THEN 1
    ELSE 0

\* e.A.Value and e.B.Value in Start: the level of the pin, or an error, which
\* Start logs before it goes on with the value returned along with it
ReadLevel(level, err) == IF err THEN {0, 1} ELSE {level}

\* NewIncrementalEncoder and Start up to the launch of the worker: the counts
\* are 0 and pState is made of the two levels read.
\* pins: the levels of the two pins, as of the last tick of each;
\* readErr: one of the two reads of Start returned an error;
\* callbacks: the pins on which the worker's channel is registered;
\* closing: where a call of Close is
InitEncoder ==
    /\ PlanInit({IdleRequest})
    /\ setup = NoSetup
    /\ judged = NoJudged
    /\ graph = NoGraph
    /\ stream = NoStream
    /\ svc = NoService
    /\ \E pinA \in {0, 1}, pinB \in {0, 1}, errA \in BOOLEAN, errB \in BOOLEAN :
       \E aLevel \in ReadLevel(pinA, errA), bLevel \in ReadLevel(pinB, errB) :
         enc = [cancelled |-> FALSE, pc |-> "top",
                callbacks |-> {"A", "B"}, closing |-> "no",
                pins |-> [A |-> pinA, B |-> pinB], readErr |-> errA \/ errB,
                aLevel |-> aLevel, bLevel |-> bLevel,
                pState |-> aLevel + 2 * bLevel, nState |-> 0, loaded |-> 0,
                pRaw |-> 0, position |-> 0,
                reset |-> [pc |-> "idle", offsetInt |-> 0, low |-> 0],
                since |-> [reset |-> FALSE, quiet |-> FALSE, offset |-> 0,
                           low |-> 0, net |-> 0, counted |-> 0]]

WorkerBusy == enc.pc \in {"load", "store"}

\* the check of CancelCtx at the top of the worker's loop; on return the
\* deferred RemoveCallback of both pins
WorkerTop ==
    /\ enc.pc = "top"
    /\ enc' = [enc EXCEPT !.pc = IF enc.cancelled THEN "exited" ELSE "select",
                          !.callbacks = IF enc.cancelled THEN {} ELSE @]
    /\ UNCHANGED <<planVars, setup, judged, graph, stream, svc>>

DoneCaseMissing(cancelled) == FALSE

\* case <-e.CancelCtx.Done() of the select in which the worker waits for a tick
DoneCase(cancelled) == cancelled

\* the select of the worker fires on CancelCtx.Done(): return, and the
\* deferred RemoveCallback of both pins
WorkerCancelled ==
    /\ enc.pc = "select"
    /\ DoneCase(enc.cancelled)
    /\ enc' = [enc EXCEPT !.pc = "exited", !.callbacks = {}]
    /\ UNCHANGED <<planVars, setup, judged, graph, stream, svc>>

\* a tick of pin A or B is received: the level is taken from the tick, the new
\* state is compared with the previous one, and inc() or dec() is called.
\* since: what has happened since the last Reset, for the readers of the counts
\* (counted: how many transitions were counted since it started, up to MaxCounted)
WorkerRecv(pin, high) ==
    /\ enc.pc = "select"
    /\ pin \in enc.callbacks
    /\ LET aLevel == IF pin = "A" THEN (IF high THEN 1 ELSE 0) ELSE enc.aLevel
           bLevel == IF pin = "B" THEN (IF high THEN 1 ELSE 0) ELSE enc.bLevel
           nState == aLevel + 2 * bLevel
           by == Transition(enc.pState, nState)
       IN  /\ Abs(enc.pRaw + by) <= MaxRaw
           /\ enc' = [enc EXCEPT
                         !.aLevel = aLevel, !.bLevel = bLevel,
                         !.pins[pin] = IF high THEN 1 ELSE 0,
                         !.nState = nState,
                         !.pRaw = @ + by,
                         !.pc = IF by = 0 THEN "top" ELSE "load",
                         !.since.quiet = @ /\ (by = 0 \/ enc.reset.pc = "idle"),
                         !.since.net = @ + by,
                         !.since.counted =
                             IF by = 0 \/ (~enc.since.reset /\ enc.reset.pc = "idle")
                             THEN @
                             ELSE IF @ < MaxCounted THEN @ + 1 ELSE @]
    /\ UNCHANGED <<planVars, setup, judged, graph, stream, svc>>

ShiftedTowardsZero(pRaw) == IF pRaw >= 0 THEN pRaw \div 2 ELSE -((-pRaw) \div 2)

\* pRaw >> 1 on an int64: the arithmetic shift rounds down
Shifted(pRaw) == pRaw \div 2

\* atomic.LoadInt64(&e.pRaw) >> 1
WorkerLoad ==
    /\ enc.pc = "load"
    /\ enc' = [enc EXCEPT !.pc = "store", !.loaded = Shifted(enc.pRaw)]
    /\ UNCHANGED <<planVars, setup, judged, graph, stream, svc>>

\* atomic.StoreInt64(&e.position, ...); e.pState = nState
WorkerStore ==
    /\ enc.pc = "store"
    /\ enc' = [enc EXCEPT !.pc = "top", !.position = enc.loaded, !.pState = enc.nState]
    /\ UNCHANGED <<planVars, setup, judged, graph, stream, svc>>

\* Reset with an offset that is no integer: an error, nothing is stored
ResetInvalid(halves) ==
    /\ enc.reset.pc = "idle"
    /\ ~ValidateIntegerOffset(halves)
    /\ UNCHANGED vars

\* Reset: atomic.StoreInt64(&e.position, offsetInt)
ResetStorePosition(halves) ==
    /\ enc.reset.pc = "idle"
    /\ ValidateIntegerOffset(halves)
    /\ enc' = [enc EXCEPT
                  !.position = halves \div 2,
                  !.reset = [pc |-> "load", offsetInt |-> halves \div 2, low |-> 0],
                  !.since = [reset |-> FALSE, quiet |-> ~WorkerBusy,
                             offset |-> halves \div 2, low |-> enc.pRaw % 2, net |-> 0,
                             counted |-> 0]]
    /\ UNCHANGED <<planVars, setup, judged, graph, stream, svc>>

\* Reset: atomic.LoadInt64(&e.pRaw) & 0x1
ResetLoad ==
    /\ enc.reset.pc = "load"
    /\ enc' = [enc EXCEPT !.reset.pc = "store", !.reset.low = enc.pRaw % 2]
    /\ UNCHANGED <<planVars, setup, judged, graph, stream, svc>>

ResetRawWithoutLowBit(offsetInt, low) == 2 * offsetInt

\* (offsetInt << 1) | low, with low the lowest bit of the raw count
ResetRaw(offsetInt, low) == 2 * offsetInt + low

\* Reset: atomic.StoreInt64(&e.pRaw, (offsetInt << 1) | low)
ResetStoreRaw ==
    /\ enc.reset.pc = "store"
    /\ enc' = [enc EXCEPT
                  !.pRaw = ResetRaw(enc.reset.offsetInt, enc.reset.low),
                  !.reset.pc = "idle",
                  !.since.reset = TRUE]
    /\ UNCHANGED <<planVars, setup, judged, graph, stream, svc>>

TicksCount == enc.position
RawPosition == enc.pRaw

\* Close: cancelFunc(), and on to activeBackgroundWorkers.Wait()
CloseEncoder ==
    /\ ~enc.cancelled
    /\ enc' = [enc EXCEPT !.cancelled = TRUE, !.closing = "waiting"]
    /\ UNCHANGED <<planVars, setup, judged, graph, stream, svc>>

\* Close: activeBackgroundWorkers.Wait() returns once the worker has returned
CloseReturn ==
    /\ enc.closing = "waiting"
    /\ enc.pc = "exited"
    /\ enc' = [enc EXCEPT !.closing = "returned"]
    /\ UNCHANGED <<planVars, setup, judged, graph, stream, svc>>

NextEncoder ==
    \/ WorkerTop
    \/ WorkerCancelled
    \/ \E pin \in {"A", "B"}, high \in BOOLEAN : WorkerRecv(pin, high)
    \/ WorkerLoad
    \/ WorkerStore
    \/ \E halves \in ResetOffsets : ResetInvalid(halves)
    \/ \E halves \in ResetOffsets : ResetStorePosition(halves)
    \/ ResetLoad
    \/ ResetStoreRaw
    \/ CloseEncoder
    \/ CloseReturn

SpecEncoder == InitEncoder /\ [][NextEncoder]_vars

\* the steps the worker takes on its own, without a tick
WorkerStep == WorkerTop \/ WorkerCancelled \/ WorkerLoad \/ WorkerStore

\* the worker's goroutine and the caller of Close are scheduled; ticks and
\* calls of Reset and Close come as they may
FairnessEncoder == WF_vars(WorkerStep) /\ WF_vars(CloseReturn)

SpecEncoderFair == InitEncoder /\ [][NextEncoder]_vars /\ FairnessEncoder

\* ================================================================ SLAM streams
\* Bound on the number of calls of a stream's callback.
MaxCalls == 3

\* what a call of the callback returns: a chunk of bytes and an error, which
\* is nil, io.EOF, an error wrapping io.EOF, or another error
Chunks == {<<>>, <<1>>, <<2, 3>>}
StreamErrors == {"nil", "EOF", "wrapsEOF", "other"}
CallbackReturns == [chunk : Chunks, err : StreamErrors]

\* errors.Is(err, io.EOF)
IsEOF(err) == err \in {"EOF", "wrapsEOF"}

\* the returns of a callback in the order of its calls; the last one ends the
\* stream
Scripts ==
    {script \in UNION {[1..n -> CallbackReturns] : n \in 1..MaxCalls} :
        script[Len(script)].err # "nil"}

\* GetPointCloudMapFull / GetInternalStateFull before the stream is asked for
InitStream ==
    /\ PlanInit({IdleRequest})
    /\ setup = NoSetup
    /\ judged = NoJudged
    /\ graph = NoGraph
    /\ enc = NoEncoder
    /\ svc = NoService
    /\ stream \in [pc : {"open"}, openErr : BOOLEAN, script : Scripts, calls : {0},
                    fullBytes : {<<>>}, bytes : {<<>>}, err : {"nil"}]

\* the stream call of the service: its error is returned with nil bytes
GetFull ==
    /\ stream.pc = "open"
    /\ stream' = IF stream.openErr
                  THEN [stream EXCEPT !.pc = "returned", !.err = "open"]
                  ELSE [stream EXCEPT !.pc = "concat"]
    /\ UNCHANGED <<planVars, setup, judged, graph, enc, svc>>

ErrorBytesKept(fullBytes) == fullBytes

\* return nil, err
ErrorBytes(fullBytes) == <<>>

\* one turn of helperConcatenateChunksToFull's loop
ConcatChunk ==
    /\ stream.pc = "concat"
    /\ LET r == stream.script[stream.calls + 1] IN
         stream' =
            IF IsEOF(r.err)
            THEN [stream EXCEPT !.calls = @ + 1, !.pc = "returned",
                                !.bytes = stream.fullBytes, !.err = "nil"]
            ELSE IF r.err # "nil"
            THEN [stream EXCEPT !.calls = @ + 1, !.pc = "returned",
                                !.bytes = ErrorBytes(stream.fullBytes), !.err = r.err]
            ELSE [stream EXCEPT !.calls = @ + 1, !.fullBytes = @ \o r.chunk]
    /\ UNCHANGED <<planVars, setup, judged, graph, enc, svc>>

NextStream ==
    \/ GetFull
    \/ ConcatChunk

SpecStream == InitStream /\ [][NextStream]_vars

\* ------------------------------------------------------- reconfigurableSlam
\* Bound on the number of SLAM services that can be wrapped.
MaxServices == 2

Services == 1..MaxServices

\* a resource.Reconfigurable that is not a *reconfigurableSlam
WrongType == 0

\* goroutines calling the methods of the wrapper
Callers == {"c1", "c2"}

\* the methods that delegate to svc.actual under the read lock
Delegated == {"Position", "GetPosition", "GetMap", "GetInternalState",
              "GetPointCloudMapStream", "GetInternalStateStream", "DoCommand", "Close"}

IdleCall == [pc |-> "idle", on |-> 0, method |-> "none"]

\* WrapWithReconfigurable: a wrapper around a service, its lock free
InitService ==
    /\ PlanInit({IdleRequest})
    /\ setup = NoSetup
    /\ judged = NoJudged
    /\ graph = NoGraph
    /\ enc = NoEncoder
    /\ stream = NoStream
    /\ \E first \in Services :
         svc = [pc |-> "wrapped", actual |-> first, first |-> first, writer |-> FALSE,
                rc |-> [pc |-> "idle", new |-> first, err |-> "nil"],
                calls |-> [c \in Callers |-> IdleCall], closed |-> {}]

Readers(s) == {c \in Callers : s.calls[c].pc = "running"}

\* svc.mu.RLock() can return
CanRLock(s) == ~s.writer

CanLockWithReaders(s) == ~s.writer

\* svc.mu.Lock() can return
CanLock(s) == ~s.writer /\ Readers(s) = {}

\* a delegating method: RLock and the call of the same method of svc.actual;
\* Close calls TryClose on svc.actual
CallStart(c, m) ==
    /\ svc.pc = "wrapped"
    /\ svc.calls[c].pc = "idle"
    /\ CanRLock(svc)
    /\ svc' = [svc EXCEPT !.calls[c] = [pc |-> "running", on |-> svc.actual, method |-> m],
                          !.closed = IF m = "Close" THEN @ \cup {svc.actual} ELSE @]
    /\ UNCHANGED <<planVars, setup, judged, graph, enc, stream>>

\* the delegated call returns; the deferred RUnlock
CallReturn(c) ==
    /\ svc.pc = "wrapped"
    /\ svc.calls[c].pc = "running"
    /\ svc' = [svc EXCEPT !.calls[c] = IdleCall]
    /\ UNCHANGED <<planVars, setup, judged, graph, enc, stream>>

\* Reconfigure: svc.mu.Lock()
ReconfigureLock(newSvc) ==
    /\ svc.pc = "wrapped"
    /\ svc.rc.pc = "idle"
    /\ CanLock(svc)
    /\ svc' = [svc EXCEPT !.writer = TRUE, !.rc = [pc |-> "locked", new |-> newSvc, err |-> "nil"]]
    /\ UNCHANGED <<planVars, setup, judged, graph, enc, stream>>

\* Reconfigure: the type assertion fails; the error is returned and the
\* deferred Unlock runs
ReconfigureWrongType ==
    /\ svc.pc = "wrapped"
    /\ svc.rc.pc = "locked"
    /\ svc.rc.new = WrongType
    /\ svc' = [svc EXCEPT !.writer = FALSE, !.rc.pc = "idle", !.rc.err = "unexpectedType"]
    /\ UNCHANGED <<planVars, setup, judged, graph, enc, stream>>

\* Reconfigure: TryClose on the old service; its error is logged only
ReconfigureClose ==
    /\ svc.pc = "wrapped"
    /\ svc.rc.pc = "locked"
    /\ svc.rc.new # WrongType
    /\ svc' = [svc EXCEPT !.closed = @ \cup {svc.actual}, !.rc.pc = "closedOld"]
    /\ UNCHANGED <<planVars, setup, judged, graph, enc, stream>>

\* Reconfigure: svc.actual = rSvc.actual, return nil and the deferred Unlock
ReconfigureSwap ==
    /\ svc.pc = "wrapped"
    /\ svc.rc.pc = "closedOld"
    /\ svc' = [svc EXCEPT !.actual = svc.rc.new, !.writer = FALSE, !.rc.pc = "idle"]
    /\ UNCHANGED <<planVars, setup, judged, graph, enc, stream>>

NextService ==
    \/ \E c \in Callers, m \in Delegated : CallStart(c, m)
    \/ \E c \in Callers : CallReturn(c)
    \/ \E newSvc \in Services \cup {WrongType} : ReconfigureLock(newSvc)
    \/ ReconfigureWrongType
    \/ ReconfigureClose
    \/ ReconfigureSwap

SpecService == InitService /\ [][NextService]_vars

\* ===================================================================== claims
RECURSIVE Flatten(_)
Flatten(paths) == IF paths = <<>> THEN <<>> ELSE Head(paths) \o Flatten(Tail(paths))

Primaries == {k \in Inst : k[2] = 1}

\* the step sends on the solutionChan of k, and the message it sends
Emits(k) == sent'[k].solution = sent[k].solution + 1
Msg(k) == chan'[k].solution[Len(chan'[k].solution)]

\* the step is the return of driver k
Returns(k) == drv[k].pc \notin {"none", "done"} /\ drv'[k].pc = "done"

\* what the fallback's promise yields in a step that leaves awaitAlt
AltYield(k) ==
    IF drv[k].alt.kind = "ready"
    THEN [steps |-> drv[k].alt.steps, err |-> NoErr]
    ELSE IF chan[Kid(k)].solution # <<>> /\ chan'[Kid(k)].solution = <<>>
         THEN [steps |-> Head(chan[Kid(k)].solution).steps,
               err |-> Head(chan[Kid(k)].solution).planerr]
         ELSE [steps |-> <<>>, err |-> CtxErr]

\* C1: the atomic waypoints are submitted in index order, their promises are
\* awaited in that order (the n-th path yielded is the one planned from the
\* n-th seed handed out, and is the promise's own steps when the promise was
\* materialised), and the composite path returned is the concatenation of the
\* yielded sub-paths in that order, whatever order the drivers completed in.
C1_InOrderConcatenation ==
    /\ \A i \in Waypoints :
         drv[<<i, 1>>].pc # "none" => \A j \in 0..(i - 1) : drv[<<j, 1>>].pc # "none"
    /\ Len(orch.promises) = orch.i
    /\ Len(orch.seeds) \in {orch.i, orch.i + 1}
    /\ Len(orch.yielded) = orch.j
    /\ \A n \in 1..Len(orch.yielded) :
         /\ orch.yielded[n][1] = orch.seeds[n]
         /\ orch.promises[n].kind = "ready" => orch.yielded[n] = orch.promises[n].steps
    /\ orch.resultSlices = Flatten(orch.yielded)
    /\ (orch.paw.returned /\ orch.paw.err = NoErr) =>
         /\ Len(orch.yielded) = req.numGoals
         /\ orch.paw.path = Flatten(orch.yielded)
         /\ ret.returned /\ ret.err = NoErr /\ ret.path = orch.paw.path

\* a composite path of several sub-paths is returned although a later
\* waypoint's driver sent its solution before an earlier one's
C1_Witness ==
    /\ ret.returned /\ ret.err = NoErr
    /\ req.numGoals > 1
    /\ outOfOrder
    /\ ret.path = Flatten(orch.yielded)

\* C2: planAtomicWaypoints and PlanSingleWaypoint never return a path together
\* with an error, also when sub-paths have been collected already; a return
\* without an error carries the whole, non-empty composite path.
C2_NoPartialPath ==
    /\ (orch.paw.returned /\ orch.paw.err # NoErr) => orch.paw.path = <<>>
    /\ (ret.returned /\ ret.err # NoErr) => ret.path = <<>>
    /\ orch.paw.returned => (ret.returned /\ ret.err = orch.paw.err)
    /\ (ret.returned /\ ret.err = NoErr) =>
         (ret.path # <<>> /\ Len(orch.yielded) = req.numGoals)

\* an error is returned after a sub-path had been collected
C2_Witness ==
    /\ ret.returned /\ ret.err # NoErr /\ ret.path = <<>>
    /\ orch.paw.returned
    /\ orch.resultSlices # <<>>

\* C3: in every composite path returned, waypoint 0 is planned from the
\* caller's seed and the seed handed to waypoint n+1, the first configuration
\* of its sub-path, is the last configuration of the sub-path of waypoint n.
C3_SeedChain ==
    (orch.paw.returned /\ orch.paw.err = NoErr) =>
        /\ orch.seeds[1] = req.seed
        /\ \A n \in 1..(Len(orch.yielded) - 1) :
             /\ orch.yielded[n + 1][1] = orch.seeds[n + 1]
             /\ orch.seeds[n + 1] = Last(orch.yielded[n])

\* a composite path is returned whose second waypoint was seeded from the
\* endpoint preview of the first, before the first one's path was known
C3_Witness ==
    /\ orch.paw.returned /\ orch.paw.err = NoErr
    /\ Len(orch.yielded) > 1
    /\ orch.promises[1].kind = "future"
    /\ orch.yielded[1][1] # Last(orch.yielded[1])
    /\ orch.seeds[2] = Last(orch.yielded[1])

\* the driver of primary k has judged the planner's return and still holds it
\* unsmoothed
Judged(k) == drv[k].pc \in {"fbSelect", "waitSmooth"}
FallbackStarted(k) == drv[Kid(k)].pc # "none"

\* C4 as claimed: after a primary without error, with a fallback configured,
\* the fallback is started if and only if the unsmoothed path is not good enough.
C4_Original ==
    \A k \in Primaries :
        (Judged(k) /\ HasFallback(k) /\ drv[k].fin.planerr = NoErr) =>
            (FallbackStarted(k) <=> ~goodPlan(drv[k].fin)[1])

C4_Decision ==
    \A k \in Primaries :
        (Judged(k) /\ HasFallback(k) /\ drv[k].ctor /\ drv[k].fin.planerr = NoErr) =>
            (FallbackStarted(k) <=> ~goodPlan(drv[k].fin)[1])

C4_Emission ==
    \A k \in Primaries :
        (/\ Returns(k)
         /\ drv[k].pc = "waitSmooth"
         /\ HasFallback(k)
         /\ drv[k].fin.planerr = NoErr
         /\ goodPlan(drv[k].fin)[1]) =>
            /\ ~FallbackStarted(k)
            /\ drv'[Kid(k)].pc = "none"
            /\ Emits(k)
            /\ Msg(k) = [drv[k].fin EXCEPT !.steps = Head(chan[k].smooth)]

\* C4, amended: when the driver has received a primary's return without error
\* and the fallback planner was constructed, the fallback is started if and
\* only if the unsmoothed path is not good enough; when it is good enough the
\* fallback is never started and the message sent is the primary's return with
\* its smoothed path.
C4_FallbackIffNotGood == [][C4_Decision' /\ C4_Emission]_vars

\* a good primary path with a constructed fallback planner that is not started
C4_Witness ==
    \E k \in Primaries :
        /\ drv[k].pc = "waitSmooth"
        /\ HasFallback(k) /\ drv[k].ctor
        /\ drv[k].fin.planerr = NoErr /\ goodPlan(drv[k].fin)[1]
        /\ ~FallbackStarted(k)

\* C5: when the message sent for a waypoint carries the fallback's path, the
\* fallback's promise yielded that path without error and its cost is strictly
\* less than the score of the primary's smoothed return; a fallback path of
\* equal or greater cost leaves the primary's return in place.
C5_Step ==
    \A k \in Primaries :
        /\ (Returns(k) /\ drv[k].pc = "waitSmooth") =>
              Msg(k) = [drv[k].fin EXCEPT !.steps = Head(chan[k].smooth)]
        /\ (Returns(k) /\ drv[k].pc = "awaitAlt") =>
              /\ Emits(k)
              /\ Msg(k) # drv[k].fin =>
                   /\ AltYield(k).err = NoErr
                   /\ Msg(k) = PlanReturn(AltYield(k).steps, NoErr, NoMaps)
                   /\ EvaluatePlan(AltYield(k).steps) < goodPlan(drv[k].fin)[2]
              /\ (AltYield(k).err = NoErr
                  /\ EvaluatePlan(AltYield(k).steps) >= goodPlan(drv[k].fin)[2]) =>
                   Msg(k) = drv[k].fin

C5_FallbackStrictlyBetter == [][C5_Step]_vars

\* the solutionChan of a primary holds the fallback's path
C5_Witness ==
    \E k \in Primaries :
        /\ chan[k].solution # <<>>
        /\ Head(chan[k].solution) =
             PlanReturn(Head(chan[k].solution).steps, NoErr, NoMaps)
        /\ Head(chan[k].solution).steps # <<>>
        /\ sent[Kid(k)].solution = 1

\* no message of a primary and no return of the request carries an error of
\* a fallback
C6_NoFallbackError ==
    /\ \A k \in Primaries :
         \A n \in 1..Len(chan[k].solution) :
            chan[k].solution[n].planerr \in {NoErr, <<"ik", 1>>, <<"plan", 1>>}
    /\ ret.err[2] # 2

C6_PrimaryKept ==
    \A k \in Primaries :
        /\ (Returns(k) /\ drv[k].pc = "waitSmooth") =>
              /\ Emits(k)
              /\ Msg(k) = [drv[k].fin EXCEPT !.steps = Head(chan[k].smooth)]
        /\ (Returns(k) /\ drv[k].pc = "awaitAlt" /\ AltYield(k).err # NoErr) =>
              /\ Emits(k)
              /\ Msg(k) = drv[k].fin

\* C6: when the fallback planner cannot be constructed, cannot be started, or
\* its promise yields an error, the message sent is the primary's return (with
\* its smoothed path, or with its own error), and no error of the fallback is
\* ever sent or returned.
C6_FallbackFailureSuppressed == [][C6_NoFallbackError' /\ C6_PrimaryKept]_vars

\* the fallback has sent an error, the driver has taken it, and goes on with
\* the primary's return
C6_Witness ==
    \E k \in Primaries :
        /\ drv[k].pc = "waitSmooth"
        /\ ~ctxDone
        /\ drv[k].alt = NoPromise
        /\ drv[k].fin.planerr = NoErr
        /\ sent[Kid(k)].solution = 1
        /\ chan[Kid(k)].solution = <<>>

\* C7 as claimed: the fallback is always started with maps = nil.
C7_Original ==
    \A k \in Primaries : drv[Kid(k)].pc = "start" => drv[Kid(k)].maps = NoMaps

\* C7, amended: a fallback started after a primary that returned a path
\* without error is handed maps = nil; a fallback started after a primary's
\* error is handed the maps of the primary's return.
C7_FreshMapsAfterBadPath ==
    \A k \in Primaries :
        (drv[Kid(k)].pc = "start" /\ Judged(k)) =>
            /\ drv[k].fin.planerr = NoErr => drv[Kid(k)].maps = NoMaps
            /\ drv[k].fin.planerr # NoErr => drv[Kid(k)].maps = drv[k].fin.maps

\* a fallback about to start from scratch after a connected but bad path
C7_Witness ==
    \E k \in Primaries :
        /\ drv[Kid(k)].pc = "start" /\ drv[Kid(k)].maps = NoMaps
        /\ drv[k].pc = "fbSelect"
        /\ drv[k].fin.planerr = NoErr /\ drv[k].fin.maps # NoMaps

\* C8 as claimed: with a fallback configured, an error is on the completion
\* channel only when the fallback has been attempted.
C8_Original ==
    \A k \in Primaries :
        (HasFallback(k) /\ chan[k].solution # <<>>
         /\ Head(chan[k].solution).planerr # NoErr) => FallbackStarted(k)

C8_Step ==
    \A k \in Primaries :
        (HasFallback(k) /\ Emits(k) /\ Msg(k).planerr # NoErr) =>
            IF drv[k].pc = "start"
            THEN Msg(k).planerr = <<"ik", 1>> /\ ~FallbackStarted(k)
            ELSE /\ Msg(k).planerr = <<"plan", 1>>
                 /\ drv[k].ctor =>
                      /\ FallbackStarted(k)
                      /\ \/ drv[k].pc = "waitSmooth" /\ drv[k].alt = NoPromise
                         \/ drv[k].pc = "awaitAlt" /\ AltYield(k).err # NoErr

\* C8, amended: with a fallback configured, an error of the primary's
\* background run (a planner error or its timeout) is sent only after the
\* fallback has been started and has yielded no path, unless the fallback
\* planner could not be constructed; a failure of the initial IK seeding is
\* sent at once, without the fallback.
C8_PlannerErrorAfterFallback == [][C8_Step]_vars

\* the primary's planner error is on the completion channel after the fallback ran
C8_Witness ==
    \E k \in Primaries :
        /\ HasFallback(k)
        /\ chan[k].solution # <<>>
        /\ Head(chan[k].solution).planerr = <<"plan", 1>>
        /\ sent[Kid(k)].solution = 1

C9_State ==
    \A k \in Inst :
        /\ sent[k].preview <= 1
        /\ plr[k].prev => (Cardinality(plr[k].maps.goals) # 1 /\ sent[k].preview = 0)

C9_Step ==
    \A k \in Inst :
        sent'[k].preview > sent[k].preview =>
            (sent[k].solution = 0 /\ sent'[k].solution = 0)

\* C9: the endpoint-preview channel of a waypoint gets at most one message:
\* the manager's when the goal map has one node, in which case the planner is
\* not handed the channel, the planner's otherwise; and it is sent while no
\* message has been sent on the completion channel.
C9_OnePreviewBeforeSolution == [][C9_State' /\ C9_Step]_vars

\* a preview and then a solution have been sent for a waypoint
C9_Witness ==
    \E k \in Primaries : sent[k].preview = 1 /\ sent[k].solution = 1

\* C10 as claimed: a driver that has returned has sent exactly one message.
C10_Original ==
    \A k \in Inst : drv[k].pc = "done" => sent[k].solution = 1

C10_State ==
    \A k \in Inst :
        /\ sent[k].solution <= 1
        /\ drv[k].pc # "done" => sent[k].solution = 0

C10_Step ==
    \A k \in Inst :
        Returns(k) =>
            IF \/ drv[k].pc = "waitPlanner" /\ chan'[k].planner = chan[k].planner
               \/ drv[k].pc = "start" /\ plr'[k].pc = "running"
            THEN ctxDone /\ sent'[k].solution = 0
            ELSE Emits(k)

\* C10, amended: planParallelRRTMotion sends at most one message on
\* solutionChan in any execution, and only as it returns; it sends exactly one
\* on every return except the two taken when the context is done (after the
\* start of the planner and in the select on plannerChan), on which it sends
\* none.
C10_OneSolutionUnlessCancelled == [][C10_State' /\ C10_Step]_vars

\* a driver has returned on the context's end without a message
C10_Witness ==
    \E k \in Inst : drv[k].pc = "done" /\ sent[k].solution = 0 /\ ctxDone

\* an execution unit of the request is still running
Running(k) ==
    \/ drv[k].pc \notin {"none", "done"}
    \/ plr[k].pc = "running"
    \/ smo[k].pc = "running"

\* C11: when PlanSingleWaypoint has returned the context's error, it has
\* returned no path and no driver, planner, smoother or fallback launched for
\* the request is still running.
C11_NoUnitOutlivesCall ==
    (ret.returned /\ ret.err = CtxErr) =>
        /\ ret.path = <<>>
        /\ \A k \in Inst : ~Running(k)

\* nothing has been planned: no driver or planner was started, no plan() ran
NothingPlanned ==
    /\ \A k \in Inst : drv[k].pc = "none" /\ plr[k].pc = "none" /\ smo[k].pc = "none"
    /\ orch.seeds = <<>>
    /\ orch.promises = <<>>

\* C12: with more than one atomic waypoint the viability of the final goal is
\* checked before anything is planned, and when the check fails
\* PlanSingleWaypoint returns its error with nothing ever planned; with one
\* atomic waypoint the check is not made.
C12_ViabilityFirst ==
    /\ orch.pc = "setup" => (NothingPlanned /\ orch.viability = "none")
    /\ orch.pc \notin {"setup", "done"} =>
         (orch.viability = "passed" <=> req.numGoals > 1)
    /\ req.numGoals = 1 => (orch.viability = "none" /\ ret.err # <<"viability", 0>>)
    /\ ~NothingPlanned => (orch.viability = "passed" <=> req.numGoals > 1)
    /\ orch.viability = "failed" <=> (ret.returned /\ ret.err = <<"viability", 0>>)
    /\ orch.viability = "failed" =>
         (req.numGoals > 1 /\ ret.path = <<>> /\ NothingPlanned)

\* the viability check of a request of several waypoints has failed
C12_Witness ==
    /\ req.numGoals > 1
    /\ orch.viability = "failed"
    /\ ret.returned /\ ret.err = <<"viability", 0>>

\* C13 as claimed: an error returned by PlanSingleWaypoint is prefixed if
\* and only if the request has more than one sub-waypoint.
C13_Original ==
    (ret.returned /\ ret.err # NoErr) => (ret.prefixed <=> req.numGoals > 1)

\* C13, amended: an error returned by PlanSingleWaypoint is prefixed if and
\* only if it is an error returned by planAtomicWaypoints for a request of more
\* than one sub-waypoint; the errors of the set-up and of the viability check
\* are returned as they are.
C13_PrefixOfPlanningErrors ==
    (ret.returned /\ ret.err # NoErr) =>
        /\ ret.prefixed <=> (req.numGoals > 1 /\ orch.paw.returned)
        /\ ret.err \in {<<"setup", 0>>, <<"viability", 0>>} <=> ~orch.paw.returned

\* a planning error of a request of several sub-waypoints, prefixed
C13_Witness ==
    /\ ret.returned /\ ret.err # NoErr
    /\ req.numGoals > 1
    /\ orch.paw.returned
    /\ ret.prefixed


\* ---------------------------------------------------------------------- C14
Built == setup.pc = "built"
FromOf(k) == IF k = 1 THEN setup.seedPos ELSE setup.goals[k - 1]

\* C14: any profile but the linear one yields one atomic waypoint, planned from
\* the seed pose to the goal pose.  The linear profile with step count N >= 1
\* yields N goals, N option bundles and N planners; goal k < N is the
\* interpolation of seed and goal pose at k/N, goal N is the goal pose, and the
\* options of goal k are set up from goal k-1 (the seed pose for k = 1) to
\* goal k, which is what their profile constraint is built from.
C14_Decomposition ==
    Built /\ ~(IsLinear(setup.motionConfig) /\ setup.numSteps = 0) =>
      LET N == IF IsLinear(setup.motionConfig) THEN setup.numSteps ELSE 1
      IN     /\ Len(setup.goals) = N
             /\ Len(setup.opts) = N
             /\ Len(setup.planners) = N
             /\ setup.goals[N] = setup.goalPos
             /\ \A k \in 1..(N - 1) :
                  setup.goals[k] * N =
                      setup.seedPos * N + (setup.goalPos - setup.seedPos) * k
             /\ \A k \in 1..N :
                  /\ setup.calls[k] = <<FromOf(k), setup.goals[k]>>
                  /\ \A c \in setup.opts[k].constraints :
                       c.name = "linear" => c.from = FromOf(k) /\ c.to = setup.goals[k]
                  /\ setup.planners[k].opt = setup.opts[k]

C14_Witness ==
    /\ Built
    /\ IsLinear(setup.motionConfig)
    /\ Len(setup.goals) = MaxSteps
    /\ setup.motionConfig.planning_alg = ""

\* ---------------------------------------------------------------------- C15
\* the bundle the request's own settings give: default or named constructor,
\* the caller's timeout, the profile's constraints and metric, no fallback
OwnBundle(opt, k) ==
    /\ opt.PlannerConstructor = "default"
    /\ opt.Timeout = IF setup.motionConfig.timeout = None THEN <<"default", 0>>
                     ELSE <<"set", setup.motionConfig.timeout>>
    /\ opt.Fallback = NoOptions
    /\ opt.extra = setup.motionConfig
    /\ opt.metric = IF setup.motionConfig.motion_profile = "position_only"
                    THEN "position_only" ELSE "default"
    /\ opt.constraints =
          CollisionConstraints \cup
          (IF setup.motionConfig.motion_profile \in {"linear", "pseudolinear", "orientation"}
           THEN {Constraint(setup.motionConfig.motion_profile, FromOf(k), setup.goals[k])}
           ELSE {})

TryFirstBundle(opt, k) ==
    /\ opt.PlannerConstructor = "rrtstar"
    /\ opt.Timeout = <<"set", defaultFallbackTimeout>>
    /\ opt.Fallback # NoOptions
    /\ OwnBundle(opt.Fallback, k)

\* the claim as written: with no planning_alg every profile gets the try-first
\* bundle
C15_Original ==
    Built /\ setup.motionConfig.planning_alg = "" =>
        \A k \in 1..Len(setup.opts) : TryFirstBundle(setup.opts[k], k)

\* C15: with no planning_alg named, a request with the free profile, no
\* profile or an unrecognised one gets a try-first bundle (RRT* constructor,
\* timeout 1.5 s) whose Fallback is the bundle of the request's own settings;
\* a request with the linear, pseudolinear, orientation or position_only
\* profile gets the bundle of its own settings, with no Fallback.
C15_TryFirstForFreeProfile ==
    Built /\ setup.motionConfig.planning_alg = "" =>
        \A k \in 1..Len(setup.opts) :
            IF setup.motionConfig.motion_profile \in {"", "free", "other"}
            THEN TryFirstBundle(setup.opts[k], k)
            ELSE OwnBundle(setup.opts[k], k)

C15_Witness ==
    /\ Built
    /\ setup.motionConfig.planning_alg = ""
    /\ setup.motionConfig.motion_profile = "free"
    /\ setup.motionConfig.timeout # None
    /\ setup.opts[1].Fallback # NoOptions

\* ---------------------------------------------------------------------- C16
\* C16: a request that names rrtstar gets, whatever its profile, the RRT*
\* constructor, no Fallback, the default metric and the two collision
\* constraints only.
C16_ExplicitRRTStar ==
    Built /\ setup.motionConfig.planning_alg = "rrtstar" =>
        \A k \in 1..Len(setup.opts) :
            /\ setup.opts[k].PlannerConstructor = "rrtstar"
            /\ setup.planners[k].constructor = "rrtstar"
            /\ setup.opts[k].Fallback = NoOptions
            /\ setup.opts[k].metric = "default"
            /\ setup.opts[k].constraints = CollisionConstraints

C16_Witness ==
    /\ Built
    /\ setup.motionConfig.planning_alg = "rrtstar"
    /\ setup.motionConfig.motion_profile = "linear"
    /\ Len(setup.opts) > 1


\* ---------------------------------------------------------------------- C17
\* C17: a plan return with a path is good enough exactly when the path's cost
\* is strictly below twice the optimal cost or the optimal cost is not
\* positive; a plan return without a path is not good enough and scores +Inf.
C17_GoodPlan ==
    judged.pc = "returned" =>
        IF judged.pr.steps = <<>>
        THEN ~judged.good /\ judged.score = Inf
        ELSE judged.good <=>
                \/ EvaluatePlan(judged.pr.steps) < judged.pr.maps.opt * 2
                \/ judged.pr.maps.opt <= 0

\* a path that costs exactly twice the optimum is judged, and is not good
C17_Witness ==
    /\ judged.pc = "returned"
    /\ judged.pr.steps # <<>>
    /\ judged.pr.maps.opt > 0
    /\ EvaluatePlan(judged.pr.steps) = judged.pr.maps.opt * 2
    /\ ~judged.good


\* ---------------------------------------------------------------------- C19
\* the sub-paths a sequential orchestrator may yield for n waypoints from a
\* seed: each waypoint is planned to its end by plan(), and the next starts
\* from the last configuration of its path
RECURSIVE SequentialRuns(_, _)
SequentialRuns(n, seed) ==
    IF n = 0 THEN {<<>>}
    ELSE UNION {{<<out.steps>> \o rest : rest \in SequentialRuns(n - 1, Last(out.steps))} :
                  out \in {o \in SerialOutcomes(seed) : o.planerr = NoErr}}

\* C19: the composite path the pipelined orchestrator returns is, element by
\* element, a path of the sequential orchestrator for the same request: its
\* sub-paths are those of waypoints planned one after the other, each from the
\* last configuration of the path before it.
C19_PipelineRefinesSequential ==
    (ret.returned /\ ret.err = NoErr /\ req.parallel) =>
        /\ orch.yielded \in SequentialRuns(req.numGoals, req.seed)
        /\ ret.path = Flatten(orch.yielded)

\* a composite path of several waypoints is returned, of which every waypoint
\* but the last handed its successor a previewed endpoint
C19_Witness ==
    /\ ret.returned /\ ret.err = NoErr /\ req.parallel
    /\ req.numGoals = MaxGoals
    /\ \A n \in 1..(MaxGoals - 1) : orch.promises[n].kind = "future"
    /\ Len(ret.path) > 2 * MaxGoals


\* ---------------------------------------------------------------------- C18
\* the one result of IK, of a planner and of smoothing that is no error
OnlyReturn(S) == CHOOSE out \in S : out.planerr = NoErr
OnlyPath(S) == CHOOSE steps \in S : TRUE

\* the path of one atomic waypoint when its steps are taken one after the
\* other: IK, the planner, the quality check, the fallback from fresh IK, the
\* smoothing of both, and the comparison of their costs
FixedParallelPath(seed) ==
    LET ik == OnlyReturn(initRRTSolutions(1, seed))
        primary == OnlyReturn(PlannerOutcomes(1, seed, ik.maps, None))
        smoothed == OnlyPath(SmoothOutcomes(primary.steps))
        ik2 == OnlyReturn(initRRTSolutions(2, seed))
        alternate ==
            IF ik2.steps # <<>> THEN ik2.steps
            ELSE OnlyPath(SmoothOutcomes(
                     OnlyReturn(PlannerOutcomes(2, seed, ik2.maps, None)).steps))
        score ==
            IF ik.maps.opt <= 0 THEN Inf ELSE EvaluatePlan(smoothed)
        good ==
            ik.maps.opt <= 0 \/ EvaluatePlan(primary.steps) < ik.maps.opt * 2
    IN  IF ik.steps # <<>> THEN ik.steps
        ELSE IF ~req.fallback \/ good THEN smoothed
        ELSE IF EvaluatePlan(alternate) < score THEN alternate
        ELSE smoothed

FixedWaypointPath(seed) ==
    IF req.parallel THEN FixedParallelPath(seed)
    ELSE OnlyReturn(SerialOutcomes(seed)).steps

RECURSIVE FixedPath(_, _)
FixedPath(n, seed) ==
    IF n = 0 THEN <<>>
    ELSE FixedWaypointPath(seed) \o FixedPath(n - 1, Last(FixedWaypointPath(seed)))

C20_UnorderedPairs ==
    /\ graph.pc # "panicked"
    /\ \A a \in graph.x \cup graph.y, b \in graph.x \cup graph.y :
         /\ a # b => ~(HasEntry(graph.distances, a, b) /\ HasEntry(graph.distances, b, a))
         /\ getDistance(graph, a, b) = getDistance(graph, b, a)
         /\ getDistance(graph, a, b) =
                IF graph.last[{a, b}] = Unset THEN <<NaN, FALSE>>
                ELSE <<graph.last[{a, b}], TRUE>>


\* ---------------------------------------------------------------------- C21
GraphNames == graph.x \cup graph.y

\* C21: collisionBetween(a, b) is true exactly when the latest distance set
\* for the pair {a, b} is a number within the collision buffer; a pair whose
\* distance is NaN or was never set is not reported by collisionBetween, and
\* no list that collisions() may return names it.
C21_CollisionsReported ==
    \A a \in GraphNames, b \in GraphNames :
        LET stored == graph.last[{a, b}]
            colliding == stored # Unset /\ stored # NaN /\ stored[2] <= 0
        IN  /\ collisionBetween(graph, a, b) <=> colliding
            /\ ~colliding =>
                  \A list \in collisions(graph) : \A c \in list : {c[1], c[2]} # {a, b}
            /\ \A list \in collisions(graph) : \A c \in list : c[3] # NaN /\ c[3][2] <= 0

\* a graph with a colliding pair, a pair set to NaN, and a pair never set
C21_Witness ==
    /\ graph.pc = "built"
    /\ \E a \in GraphNames, b \in GraphNames : collisionBetween(graph, a, b)
    /\ \E a \in GraphNames, b \in GraphNames : graph.last[{a, b}] = NaN
    /\ \E a \in GraphNames, b \in GraphNames : a # b /\ graph.last[{a, b}] = Unset
    /\ \E list \in collisions(graph) : list # {}


\* ---------------------------------------------------------------------- C30
\* C30: addCollisionSpecification on two names of the graph returns, and the
\* pair is then reported neither by collisionBetween, in either order, nor in
\* any list of collisions().
C30_SpecificationIgnored ==
    [][\A name1 \in Names, name2 \in Names :
          AddCollisionSpecification(name1, name2) =>
              /\ graph'.pc # "panicked"
              /\ ~collisionBetween(graph', name1, name2)
              /\ ~collisionBetween(graph', name2, name1)
              /\ \A list \in collisions(graph') :
                    \A c \in list : {c[1], c[2]} # {name1, name2}]_vars


\* ---------------------------------------------------------------------- C22
\* the transitions <<previous state, new state>> the claim counts up and down
CountedUp == {<<0, 2>>, <<1, 0>>, <<2, 3>>, <<3, 1>>}
CountedDown == {<<0, 1>>, <<1, 3>>, <<2, 0>>, <<3, 2>>}

\* C22: a tick the worker receives changes the raw count by +1 or -1 as the
\* transition from the previous state to A | (B << 1) says, and leaves it
\* alone when the state is the same or both bits differ; the previous state
\* changes only at the end of a counted transition, to the state counted.
C22_TransitionTable ==
    [][/\ \A pin \in {"A", "B"}, high \in BOOLEAN :
            WorkerRecv(pin, high) =>
                LET t == <<enc.pState, enc'.aLevel + 2 * enc'.bLevel>>
                    by == enc'.pRaw - enc.pRaw
                IN  /\ t \in CountedUp => by = 1
                    /\ t \in CountedDown => by = -1
                    /\ t \notin CountedUp \cup CountedDown => by = 0 /\ enc'.pc = "top"
                    /\ enc'.pState = enc.pState
       /\ enc'.pState # enc.pState =>
            /\ enc.pc = "store"
            /\ <<enc.pState, enc'.pState>> \in CountedUp \cup CountedDown
            /\ enc'.pState = enc'.aLevel + 2 * enc'.bLevel]_vars

\* a transition to the state 11 has been counted down, and the previous state
\* has followed it
C22_Witness ==
    /\ enc.pc = "top"
    /\ enc.pRaw = -1
    /\ enc.position = -1
    /\ enc.pState = 3
    /\ ~enc.since.reset /\ enc.reset.pc = "idle" /\ enc.since.offset = 0

\* ---------------------------------------------------------------------- C23
\* a Reset has returned, and no tick was being counted when it started or
\* was counted while it ran
QuietReset == enc.since.reset /\ enc.since.quiet /\ enc.reset.pc = "idle"

\* C23: after a Reset to an integer offset, until a tick is counted,
\* TicksCount is the offset and RawPosition is twice the offset plus the low
\* bit of the raw count before the Reset; the transitions counted since then
\* are added to that raw count, of which TicksCount is the half.
C23_ResetZero ==
    (QuietReset /\ ~WorkerBusy) =>
        /\ RawPosition = 2 * enc.since.offset + enc.since.low + enc.since.net
        /\ TicksCount = RawPosition \div 2
        /\ enc.since.net = 0 =>
              /\ TicksCount = enc.since.offset
              /\ RawPosition = 2 * enc.since.offset + enc.since.low

\* a Reset to -1 of an odd raw count, and one transition counted since
C23_Witness ==
    /\ QuietReset /\ ~WorkerBusy
    /\ enc.since.offset = -1
    /\ enc.since.low = 1
    /\ enc.since.net = 1
    /\ TicksCount = 0


\* ---------------------------------------------------------------------- C24
\* the first call of the callback that returns an error
FirstError(script) == CHOOSE n \in 1..Len(script) :
    /\ script[n].err # "nil"
    /\ \A m \in 1..(n - 1) : script[m].err = "nil"

RECURSIVE ChunksBefore(_, _)
ChunksBefore(script, n) ==
    IF n <= 1 THEN <<>> ELSE ChunksBefore(script, n - 1) \o script[n - 1].chunk

\* C24: when the stream was opened, the bytes returned are the chunks of the
\* calls before the first io.EOF, in the order of the calls, with no error;
\* when another error comes first, that error is returned with no bytes.
C24_ConcatenatedChunks ==
    (stream.pc = "returned" /\ ~stream.openErr) =>
        LET n == FirstError(stream.script) IN
        /\ stream.calls = n
        /\ IF IsEOF(stream.script[n].err)
           THEN stream.bytes = ChunksBefore(stream.script, n) /\ stream.err = "nil"
           ELSE stream.bytes = <<>> /\ stream.err = stream.script[n].err

\* two chunks and then io.EOF, itself with a chunk that is not returned
C24_Witness ==
    /\ stream.pc = "returned"
    /\ stream.calls = MaxCalls
    /\ stream.err = "nil"
    /\ Len(stream.bytes) = 3
    /\ stream.script[MaxCalls].chunk # <<>>


\* ---------------------------------------------------------------------- C25
\* C25: while Reconfigure holds the lock no delegated call is running; a
\* running delegated call is on the service that is wrapped now, so calls
\* made after a Reconfigure are on the new service; a Reconfigure with a
\* value of another type returns an error and leaves the wrapped service
\* as it was, not closed by it.
C25_ReconfigureExclusive ==
    [][/\ svc.pc = "wrapped" =>
            /\ svc.writer => Readers(svc) = {}
            /\ \A c \in Readers(svc) : svc.calls[c].on = svc.actual
       /\ (svc.pc = "wrapped" /\ svc.rc.pc = "locked" /\ svc.rc.new = WrongType
            /\ svc'.rc.pc = "idle") =>
            /\ svc'.rc.err = "unexpectedType"
            /\ svc'.actual = svc.actual
            /\ svc'.closed = svc.closed]_vars

\* a call on the new service after a Reconfigure that closed the first one
\* and a later Reconfigure with a value of another type
C25_Witness ==
    /\ svc.pc = "wrapped"
    /\ svc.actual # svc.first
    /\ svc.closed = {svc.first}
    /\ svc.rc.pc = "idle"
    /\ svc.rc.err = "unexpectedType"
    /\ \E c \in Callers : svc.calls[c].pc = "running" /\ svc.calls[c].on = svc.actual


\* ---------------------------------------------------------------------- C27
\* C27: a call of plannerSetupFromMoveRequest returns after at most one nested
\* call of itself, and the Fallback of a bundle it returns, when there is one,
\* has no Fallback.
C27_OneNestedCall ==
    setup.pc # "none" =>
        /\ Len(setup.nested) = Len(setup.opts)
        /\ \A k \in 1..Len(setup.opts) :
             /\ setup.nested[k] <= 1
             /\ setup.opts[k].Fallback # NoOptions =>
                    setup.opts[k].Fallback.Fallback = NoOptions

\* a call that made its one nested call and returned a bundle with a Fallback
C27_Witness ==
    /\ setup.pc = "built"
    /\ setup.nested = <<1>>
    /\ setup.opts[1].Fallback # NoOptions
    /\ setup.opts[1].Fallback.PlannerConstructor = "default"

\* ---------------------------------------------------------------------- C28
\* C28: no call of plannerSetupFromMoveRequest changes the map it is given;
\* the bundle of the try-first attempt carries the timeout and planning_alg
\* written for it, and the extras of its Fallback are the caller's map, with
\* every key and value, the key the set-up does not know included.
C28_CallerMapKept ==
    [][setup.pc # "none" =>
        /\ setup'.motionConfig = setup.motionConfig
        /\ \A k \in 1..Len(setup'.opts) :
             setup'.opts[k].Fallback # NoOptions =>
                /\ DOMAIN setup'.opts[k].Fallback.extra = DOMAIN setup.motionConfig
                /\ \A key \in DOMAIN setup.motionConfig :
                     setup'.opts[k].Fallback.extra[key] = setup.motionConfig[key]
                /\ setup'.opts[k].extra.timeout = defaultFallbackTimeout
                /\ setup'.opts[k].extra.planning_alg = "rrtstar"]_vars

\* a spliced fallback for a map with a timeout of its own and an unknown key
C28_Witness ==
    /\ setup.pc = "built"
    /\ setup.opts[1].Fallback # NoOptions
    /\ setup.motionConfig.other # None
    /\ setup.motionConfig.timeout = 50
    /\ setup.opts[1].Fallback.extra.other = setup.motionConfig.other
    /\ setup.opts[1].extra.other = setup.motionConfig.other


\* ---------------------------------------------------------------------- C26
\* the step starts the fallback of primary k
StartsFallback(k) == drv[Kid(k)].pc = "none" /\ drv'[Kid(k)].pc # "none"

\* C26: when the fallback of a primary is started, the smoothing of the
\* primary's path is running and nothing of it has been received; the start was
\* decided on the planner's return as it came, a path not good enough or an
\* error.  The driver goes on to the fallback's promise only by receiving the
\* smoothed path, and returns with a fallback's promise in hand only from
\* there, the smoothing done.
C26_SmoothingBesideFallback ==
    [][\A k \in Primaries :
        /\ StartsFallback(k) =>
              /\ chan[k].planner # <<>>
              /\ smo[k].pc = "none"
              /\ smo'[k] = [pc |-> "running", input |-> Head(chan[k].planner).steps]
              /\ chan'[k].smooth = <<>>
              /\ drv'[k].fin = Head(chan[k].planner)
              /\ ~(drv'[k].fin.planerr = NoErr /\ goodPlan(drv'[k].fin)[1])
        /\ (drv[k].pc # "awaitAlt" /\ drv'[k].pc = "awaitAlt") =>
              /\ drv[k].pc = "waitSmooth"
              /\ smo[k].pc = "done"
              /\ chan[k].smooth # <<>>
              /\ drv'[k].fin = [drv[k].fin EXCEPT !.steps = Head(chan[k].smooth)]
        /\ (Returns(k) /\ drv[k].alt # NoPromise) =>
              /\ drv[k].pc = "awaitAlt"
              /\ smo[k].pc = "done"
              /\ chan[k].smooth = <<>>]_vars

\* the fallback has run to its end while the smoothing of the primary's path
\* has not finished
C26_Witness ==
    \E k \in Primaries :
        /\ drv[Kid(k)].pc = "done"
        /\ sent[Kid(k)].solution = 1
        /\ smo[k].pc = "running"
        /\ drv[k].pc \in {"fbSelect", "waitSmooth"}


\* ---------------------------------------------------------------------- C29
\* no unit that is running has a send before it that would wait: a channel
\* holds at most one message and is empty as long as its sender can send
NoSendWaits ==
    \A k \in Inst :
        /\ Len(chan[k].preview) <= 1 /\ Len(chan[k].solution) <= 1
        /\ Len(chan[k].planner) <= 1 /\ Len(chan[k].smooth) <= 1
        /\ sent[k].preview <= 1 /\ sent[k].solution <= 1
        /\ drv[k].pc \notin {"none", "done"} =>
              chan[k].solution = <<>> /\ sent[k].solution = 0
        /\ plr[k].pc = "running" => chan[k].planner = <<>>
        /\ (plr[k].pc = "running" /\ plr[k].prev) =>
              chan[k].preview = <<>> /\ sent[k].preview = 0
        /\ smo[k].pc = "running" => chan[k].smooth = <<>>

\* the request has returned and no driver, planner or smoother is running
AllEnded ==
    /\ orch.pc = "done"
    /\ \A k \in Inst :
         /\ drv[k].pc \in {"none", "done"}
         /\ plr[k].pc \in {"none", "done"}
         /\ smo[k].pc \in {"none", "done"}

\* C29: no send of a driver, planner or smoother ever waits, each channel
\* getting at most one message, and in every fair run the request returns and
\* every driver, planner and smoother that was started ends, whether the
\* context is cancelled or not and whether the request returned before them
\* or not.
C29_EveryUnitEnds == [](NoSendWaits) /\ <>[](AllEnded)

\* the request has returned with drivers or planners still running, and they
\* have all ended later, leaving a message nobody receives
C29_Witness ==
    /\ AllEnded
    /\ ctxDone
    /\ \E k \in Inst : drv[k].pc = "done" /\ plr[k].pc = "done"
    /\ \E k \in Inst : chan[k].planner # <<>> \/ chan[k].solution # <<>>


\* ---------------------------------------------------------------------- C31
\* the pairs that are in collision in the reference of the graph
ReferencePairs == IF graph.reference.nil THEN {} ELSE graph.reference.colliding

\* no pair of the reference is reported by the graph
ReferenceHidden(cg) ==
    \A p \in ReferencePairs : \A a \in p, b \in p :
        a # b =>
            /\ getDistance(cg, a, b)[2] => getDistance(cg, a, b)[1] = NaN
            /\ ~collisionBetween(cg, a, b)
            /\ \A found \in collisions(cg) : \A c \in found : {c[1], c[2]} # p

\* C31: in a graph built with a reference, a pair that is in collision in the
\* reference is set to NaN by the build, which goes on after it; at every
\* moment the pair is in no result of collisions() and collisionBetween is
\* false for it.
C31_ReferenceCollisionsIgnored ==
    [][graph.pc # "none" =>
        /\ ReferenceHidden(graph)
        /\ ReferenceHidden(graph')
        /\ \A p \in ReferencePairs :
             (graph.pc = "constructing" /\ graph'.checks[p] = graph.checks[p] + 1) =>
                /\ graph'.last[p] = NaN
                /\ graph'.pc = "constructing"]_vars

\* a build without distances that passed a pair of the reference and then
\* returned early at a collision of another pair
C31_Witness ==
    /\ graph.pc = "built"
    /\ ~graph.reportDistances
    /\ \E p \in ReferencePairs : graph.checks[p] = 1 /\ graph.last[p] = NaN
    /\ \E q \in NamePairs : q \notin ReferencePairs /\ graph.last[q] = <<"num", -Inf>>


\* ---------------------------------------------------------------------- C32
\* C32: the build never takes a geometry with itself and takes each unordered
\* pair at most once; a graph built with distances reported has an entry for
\* every geometry of x with every other geometry of y; a graph built without
\* them has at most one entry in collision, and collisions() returns at most
\* one collision.
C32_PairsOnce ==
    graph.pc # "none" =>
        /\ \A p \in NamePairs : graph.checks[p] <= (IF Cardinality(p) = 1 THEN 0 ELSE 1)
        /\ (graph.pc = "built" /\ graph.reportDistances) =>
              \A xName \in graph.x, yName \in graph.y :
                  xName # yName => getDistance(graph, xName, yName)[2]
        /\ ~graph.reportDistances =>
              /\ Cardinality(CollidingEntries(graph)) <= 1
              /\ \A found \in collisions(graph) : Cardinality(found) <= 1

\* a graph of three geometries against themselves, built with distances: nine
\* turns of the loops, three pairs taken, two of them in collision
C32_Witness ==
    /\ graph.pc = "built"
    /\ graph.reportDistances
    /\ graph.x = Names /\ graph.y = Names
    /\ \A p \in NamePairs : Cardinality(p) = 2 => graph.checks[p] = 1
    /\ Cardinality(CollidingEntries(graph)) = 2


\* ---------------------------------------------------------------------- C33
\* Reset has not been called with an integer offset
NoResetYet == ~enc.since.reset /\ enc.reset.pc = "idle"

\* C33: as long as Reset has not been called, whenever the worker is not in
\* the middle of a counted tick, the raw count is the sum of the transitions
\* counted and TicksCount is that sum halved and rounded down, so that two
\* transitions counted in one direction move TicksCount by one.
C33_PositionIsHalfRaw ==
    (enc.pc # "none" /\ NoResetYet /\ ~WorkerBusy) =>
        /\ RawPosition = enc.since.net
        /\ 2 * TicksCount <= RawPosition
        /\ RawPosition <= 2 * TicksCount + 1

\* three transitions counted down: the raw count is -3 and TicksCount -2
C33_Witness ==
    /\ NoResetYet /\ ~WorkerBusy
    /\ RawPosition = -3
    /\ TicksCount = -2


\* ---------------------------------------------------------------------- C34
\* the pairs <<previous state, new state>> in which both bits differ
Impossible == {<<0, 3>>, <<3, 0>>, <<1, 2>>, <<2, 1>>}

\* the worker has done with a tick: it is back at the top of its loop
TickProcessed == enc.pc \in {"select", "store"} /\ enc'.pc = "top"

\* C34: when the worker has done with a tick the previous state pState is the
\* state of the two pins; no tick the worker receives makes a transition in
\* which both bits differ, and every tick that brings a change of the level
\* of its pin is counted.
C34_PStateIsPinLevels ==
    [][/\ TickProcessed => enc'.pState = enc'.pins.A + 2 * enc'.pins.B
       /\ \A pin \in {"A", "B"}, high \in BOOLEAN :
            WorkerRecv(pin, high) =>
                /\ <<enc.pState, enc'.nState>> \notin Impossible
                /\ enc'.pins[pin] # enc.pins[pin] => enc'.pRaw # enc.pRaw]_vars

\* C34, the part that holds whatever the reads of Start returned: pState is
\* the state made of the levels the worker holds, and no tick makes a
\* transition in which both bits differ
C34_PStateIsWorkerLevels ==
    [][/\ TickProcessed => enc'.pState = enc'.aLevel + 2 * enc'.bLevel
       /\ \A pin \in {"A", "B"}, high \in BOOLEAN :
            WorkerRecv(pin, high) =>
                /\ <<enc.pState, enc'.nState>> \notin Impossible
                /\ enc'.aLevel + 2 * enc'.bLevel # enc.pState => enc'.pRaw # enc.pRaw]_vars


\* ---------------------------------------------------------------------- C35
\* a Reset has returned and the worker is not in the middle of a tick
BothFinished == enc.since.reset /\ enc.reset.pc = "idle" /\ ~WorkerBusy

\* C35: however the steps of a Reset and of the worker's counting of a tick
\* are interleaved, once both are done TicksCount is the raw count shifted
\* right by one, and it is away from the offset by no more than the number of
\* transitions counted since the Reset started.
C35_ResetNotOverwritten ==
    BothFinished =>
        /\ TicksCount = Shifted(RawPosition)
        /\ enc.since.counted < MaxCounted =>
              Abs(TicksCount - enc.since.offset) <= enc.since.counted


\* ---------------------------------------------------------------------- C36
\* a step of Reset
ResetStep == enc'.reset.pc # enc.reset.pc

\* C36: once the context is cancelled the worker leaves its loop, from the
\* top and from the select in which it waits for a tick, and then the call of
\* Close returns; the worker that has left has removed both callbacks; and
\* after Close has returned the worker is gone, so that position and the raw
\* count change by a Reset only.
C36_CloseTerminates ==
    /\ enc.cancelled ~> enc.pc = "exited"
    /\ enc.closing = "waiting" ~> enc.closing = "returned"
    /\ [](enc.pc = "exited" => enc.callbacks = {})
    /\ [](enc.closing = "returned" => enc.pc = "exited")
    /\ [][(enc.closing = "returned"
            /\ (enc'.position # enc.position \/ enc'.pRaw # enc.pRaw
                   \/ enc'.pins # enc.pins))
           => ResetStep]_vars

\* Close has returned after ticks were counted: the worker has left and both
\* callbacks are removed
C36_Witness ==
    /\ enc.closing = "returned"
    /\ enc.pc = "exited"
    /\ enc.callbacks = {}
    /\ enc.pRaw = 2 /\ enc.position = 1

====
